---------------------------- MODULE Spec2Model ----------------------------
(***************************************************************************)
(* A model of task.md: the linter, the parser, the serializer, the section *)
(* rewriter and the query commands of the CLI.                             *)
(*                                                                         *)
(* Text is modelled at the level of characters: a string is a sequence of  *)
(* one-character strings, a file is a sequence of such lines.  JavaScript  *)
(* values are tagged records [t |-> type, v |-> payload]; a JavaScript     *)
(* object with insertion-ordered keys is a sequence of <<key, value>>      *)
(* pairs; node objects live in a heap (a sequence of records) and are      *)
(* referred to by their index, so that aliasing is modelled as it is.      *)
(* Each command is one run of the CLI: what persists between commands is   *)
(* the file system only.                                                   *)
(***************************************************************************)
EXTENDS Integers, Sequences, FiniteSets, TLC

VARIABLES
    fs,        \* the file system: file name -> the lines of the file, or NoFile
    last,      \* the last command run: its query, the files it found, its outcome
    steps      \* number of commands run so far

vars == <<fs, last, steps>>

-----------------------------------------------------------------------------
(* Characters and strings                                                  *)

Digits == {"0", "1", "2", "3", "4", "5", "6", "7", "8", "9"}
Lower == {"a", "b", "c", "d", "e", "f", "g", "h", "i", "j", "k", "l", "m",
          "n", "o", "p", "q", "r", "s", "t", "u", "v", "w", "x", "y", "z"}
Upper == {"A", "B", "C", "D", "E", "F", "G", "H", "I", "J", "K", "L", "M",
          "N", "O", "P", "Q", "R", "S", "T", "U", "V", "W", "X", "Y", "Z"}

\* the regular expression class \s
IsWs(c) == c \in {" ", "\t", "\n", "\r"}
\* [A-Za-z_]
IsIdStart(c) == c \in Lower \cup Upper \cup {"_"}
\* [A-Za-z0-9_-]
IsIdChar(c) == c \in Lower \cup Upper \cup Digits \cup {"_", "-"}
\* [a-zA-Z0-9_-]
IsNameChar(c) == c \in Lower \cup Upper \cup Digits \cup {"_", "-"}

\* The backtick character (U+0060), which a TLA+ string literal cannot hold.
BQ == "BQ"

\* the characters of the model in the order of their UTF-16 code units
CodeOrder ==
    <<"\t", "\n", "\r", " ", "!", "\"", "#", "$", "%", "&", "'", "(", ")", "*", "+", ",", "-", ".", "/",
      "0", "1", "2", "3", "4", "5", "6", "7", "8", "9", ":", ";", "<", "=", ">", "?", "@",
      "A", "B", "C", "D", "E", "F", "G", "H", "I", "J", "K", "L", "M",
      "N", "O", "P", "Q", "R", "S", "T", "U", "V", "W", "X", "Y", "Z", "[", "\\", "]", "^", "_", BQ,
      "a", "b", "c", "d", "e", "f", "g", "h", "i", "j", "k", "l", "m",
      "n", "o", "p", "q", "r", "s", "t", "u", "v", "w", "x", "y", "z", "{", "|", "}", "~">>
CharCode(c) == CHOOSE i \in 1..Len(CodeOrder) : CodeOrder[i] = c

\* the code of a character: 9, 10 and 13, then 32 to 126
ByteOf(c) == IF CharCode(c) <= 3 THEN <<9, 10, 13>>[CharCode(c)] ELSE CharCode(c) + 28

Range(s) == {s[i] : i \in 1..Len(s)}
Reverse(arr) == [i \in 1..Len(arr) |-> arr[Len(arr) + 1 - i]]
MinOf(S) == CHOOSE m \in S : \A n \in S : m <= n
MaxOf(S) == CHOOSE m \in S : \A n \in S : m >= n

StartsWith(s, p) == Len(s) >= Len(p) /\ SubSeq(s, 1, Len(p)) = p
EndsWith(s, p) == Len(s) >= Len(p) /\ SubSeq(s, Len(s) - Len(p) + 1, Len(s)) = p
DropFirst(s, n) == SubSeq(s, n + 1, Len(s))
\* String.prototype.includes for a single character
HasChar(s, c) == \E i \in 1..Len(s) : s[i] = c
HasWs(s) == \E i \in 1..Len(s) : IsWs(s[i])

\* String.prototype.trim
Trim(s) ==
    LET ix == {i \in 1..Len(s) : ~IsWs(s[i])}
    IN  IF ix = {} THEN <<>> ELSE SubSeq(s, MinOf(ix), MaxOf(ix))

\* line.match(/^(\s*)/)[1].length
IndentOf(s) ==
    LET ix == {i \in 1..Len(s) : ~IsWs(s[i])}
    IN  IF ix = {} THEN Len(s) ELSE MinOf(ix) - 1

\* raw.replace(/\t/g, '  ')
RECURSIVE ReplaceTabs(_)
ReplaceTabs(s) ==
    IF ~HasChar(s, "\t") THEN s
    ELSE (IF Head(s) = "\t" THEN <<" ", " ">> ELSE <<Head(s)>>) \o ReplaceTabs(Tail(s))

\* ' '.repeat(n)
RECURSIVE Spaces(_)
Spaces(n) == IF n <= 0 THEN <<>> ELSE <<" ">> \o Spaces(n - 1)

\* arr.join(sep) for an array of strings
RECURSIVE Join(_, _)
Join(arr, sep) ==
    IF arr = <<>> THEN <<>>
    ELSE IF Len(arr) = 1 THEN arr[1]
    ELSE Join(SubSeq(arr, 1, Len(arr) \div 2), sep) \o sep
             \o Join(SubSeq(arr, Len(arr) \div 2 + 1, Len(arr)), sep)

\* concatenation of a sequence of sequences
RECURSIVE Flatten(_)
Flatten(ss) == IF ss = <<>> THEN <<>> ELSE Head(ss) \o Flatten(Tail(ss))

\* Array.prototype.filter, by a set of kept indices
RECURSIVE KeepIdx(_, _, _)
KeepIdx(s, keep, i) ==
    IF i > Len(s) THEN <<>>
    ELSE (IF i \in keep THEN <<s[i]>> ELSE <<>>) \o KeepIdx(s, keep, i + 1)

\* s.split(c) for a one-character separator
RECURSIVE SplitOn(_, _)
SplitOn(s, c) ==
    LET ix == {i \in 1..Len(s) : s[i] = c}
    IN  IF ix = {} THEN <<s>>
        ELSE <<SubSeq(s, 1, MinOf(ix) - 1)>> \o SplitOn(DropFirst(s, MinOf(ix)), c)

\* length of the longest prefix of s, from position p on, whose characters are in class
RECURSIVE RunEnd(_, _, _)
RunEnd(s, p, class) ==
    IF p <= Len(s) /\ s[p] \in class THEN RunEnd(s, p + 1, class) ELSE p

IdChars == Lower \cup Upper \cup Digits \cup {"_", "-"}

\* /^[A-Za-z_][A-Za-z0-9_-]*:/ : the position of the colon, or 0 when there is no match
KeyColonAt(s) ==
    IF s # <<>> /\ IsIdStart(s[1])
    THEN LET e == RunEnd(s, 2, IdChars)
         IN  IF e <= Len(s) /\ s[e] = ":" THEN e ELSE 0
    ELSE 0

\* /^([A-Za-z_][A-Za-z0-9_-]*):\s*(.*)$/ : the position of the colon, or 0 when there is
\* no match.  \s* takes the white space after the colon, line terminators included;
\* the dot matches no line terminator, so none may follow that white space.
KeyValueAt(s) ==
    IF KeyColonAt(s) > 0
       /\ \A j \in RunEnd(s, KeyColonAt(s) + 1, {" ", "\t", "\n", "\r"})..Len(s) :
              s[j] \notin {"\n", "\r"}
    THEN KeyColonAt(s) ELSE 0

-----------------------------------------------------------------------------
(* JavaScript values                                                       *)

Str(s) == [t |-> "str", v |-> s]
\* a number value: v is its decimal value, see DecOfInt
Bool(b) == [t |-> "bool", v |-> b]
Arr(a) == [t |-> "arr", v |-> a]
Undef == [t |-> "undef", v |-> 0]
\* an object that is no array: the data of a task, or Object.prototype
Obj(d) == [t |-> "obj", v |-> d]
\* the array of the children of a task
Nodes(c) == [t |-> "nodes", v |-> c]
\* a built-in function, by its name
Fun(name) == [t |-> "fun", v |-> name]
Null == [t |-> "null", v |-> 0]

DigitVal(c) == CHOOSE d \in 0..9 : <<"0", "1", "2", "3", "4", "5", "6", "7", "8", "9">>[d + 1] = c
DigitChar(d) == <<"0", "1", "2", "3", "4", "5", "6", "7", "8", "9">>[d + 1]

\* the value of a string of decimal digits that fits an integer of the model
RECURSIVE DigitsValue(_)
DigitsValue(s) ==
    IF s = <<>> THEN 0 ELSE 10 * DigitsValue(SubSeq(s, 1, Len(s) - 1)) + DigitVal(s[Len(s)])

\* the decimal digits of a natural number
RECURSIVE NumToString(_)
NumToString(n) == IF n < 10 THEN <<DigitChar(n)>> ELSE NumToString(n \div 10) \o <<DigitChar(n % 10)>>

\* A number is held by the decimal value of the double, [neg, dig, exp, inf]: the
\* sign, the digits of the mantissa (most significant first, without leading or
\* trailing zeros, none for zero) and the power of ten of the last digit; inf
\* marks Infinity.  The digits are the fewest that tell the double from every
\* other, those Number.prototype.toString prints.
Zero == [neg |-> FALSE, dig |-> <<>>, exp |-> 0, inf |-> FALSE]
Infinite(neg) == [neg |-> neg, dig |-> <<>>, exp |-> 0, inf |-> TRUE]

\* the digits d without the zeros they start with, or end with
StripLead(d) ==
    IF \A i \in 1..Len(d) : d[i] = 0 THEN <<>>
    ELSE SubSeq(d, CHOOSE i \in 1..Len(d) : d[i] # 0 /\ \A j \in 1..(i - 1) : d[j] = 0, Len(d))
StripTrail(d) == IF d = <<>> \/ d[Len(d)] # 0 THEN d ELSE Reverse(StripLead(Reverse(d)))

\* the position of the decimal point: the value is 0.d1d2... * 10^Point
Point(x) == Len(x.dig) + x.exp

\* a < b for digit sequences read as the fractions 0.a1a2... and 0.b1b2...
RECURSIVE FracLess(_, _)
FracLess(a, b) ==
    IF b = <<>> THEN FALSE
    ELSE IF a = <<>> THEN StripLead(b) # <<>>
    ELSE IF Head(a) # Head(b) THEN Head(a) < Head(b)
    ELSE FracLess(Tail(a), Tail(b))

\* the digits of a natural number of the model
RECURSIVE DigitsOfNat(_)
DigitsOfNat(n) == IF n = 0 THEN <<>> ELSE Append(DigitsOfNat(n \div 10), n % 10)

\* Natural numbers of any size: the sequence of the decimal digits, most
\* significant first, without leading zeros; <<>> is 0.
\* The digits for the values raw, one for each place: what a place has over 9 or
\* under 0 is carried to the place before it.  [dig, carry] for the places from
\* lo to hi, cin carried into the last of them.
RECURSIVE CarryRange(_, _, _, _)
CarryBoth(left, right) == [dig |-> left.dig \o right.dig, carry |-> left.carry]
CarryLeft(raw, lo, mid, right) ==
    IF right.carry = 0 THEN CarryBoth(CarryRange(raw, lo, mid, 0), right)
    ELSE CarryBoth(CarryRange(raw, lo, mid, right.carry), right)
CarryRange(raw, lo, hi, cin) ==
    IF lo = hi THEN [dig |-> <<(raw[lo] + cin) % 10>>, carry |-> (raw[lo] + cin) \div 10]
    ELSE CarryLeft(raw, lo, (lo + hi) \div 2, CarryRange(raw, (lo + hi) \div 2 + 1, hi, cin))
Carried(c) == StripLead(DigitsOfNat(c.carry) \o c.dig)
NatOf(raw) == IF raw = <<>> THEN <<>> ELSE Carried(CarryRange(raw, 1, Len(raw), 0))

\* the digit of a at the place i of n places
DigitAt(a, n, i) == IF i > n - Len(a) THEN a[i - (n - Len(a))] ELSE 0
Longer(a, b) == IF Len(a) > Len(b) THEN Len(a) ELSE Len(b)

\* a + b, a - b for a >= b, a * k for a small k, a * 10^n
NatAdd(a, b) == NatOf([i \in 1..Longer(a, b) |-> DigitAt(a, Longer(a, b), i) + DigitAt(b, Longer(a, b), i)])
NatSub(a, b) == NatOf([i \in 1..Len(a) |-> a[i] - DigitAt(b, Len(a), i)])
NatMulSmall(a, k) == NatOf([i \in 1..Len(a) |-> a[i] * k])
NatShift(a, n) == IF a = <<>> THEN <<>> ELSE [i \in 1..(Len(a) + n) |-> IF i <= Len(a) THEN a[i] ELSE 0]

\* a < b
NatLess(a, b) ==
    IF Len(a) # Len(b) THEN Len(a) < Len(b)
    ELSE IF a = b THEN FALSE
    ELSE a[CHOOSE i \in 1..Len(a) : a[i] # b[i] /\ \A j \in 1..(i - 1) : a[j] = b[j]]
         < b[CHOOSE i \in 1..Len(a) : a[i] # b[i] /\ \A j \in 1..(i - 1) : a[j] = b[j]]

\* a * 2^n, 27 factors at a time
RECURSIVE NatTimesPow2(_, _)
NatTimesPow2(a, n) ==
    IF Len(a) = 0 \/ n = 0 THEN a
    ELSE NatTimesPow2(NatMulSmall(a, 2^(IF n >= 27 THEN 27 ELSE n)), IF n >= 27 THEN n - 27 ELSE 0)

\* the multiples of a by 0 to 9
Multiples(a) == SubSeq([j \in 1..10 |-> NatMulSmall(a, j - 1)], 1, 10)
\* how many times den, whose multiples are mult, goes into cur < 10 * den
TimesIn(mult, cur) == MaxOf({j \in 0..9 : ~NatLess(cur, mult[j + 1])})

\* num divided by den > 0, by long division: [quo, rem].  rem is what the digits
\* of num before the place i leave.
RECURSIVE DivLoop(_, _, _, _, _)
DivDigit(num, mult, i, quo, cur, d) ==
    DivLoop(num, mult, i + 1, Append(quo, d), NatSub(cur, mult[d + 1]))
DivPlace(num, mult, i, quo, cur) == DivDigit(num, mult, i, quo, cur, TimesIn(mult, cur))
DivLoop(num, mult, i, quo, rem) ==
    IF i > Len(num) THEN [quo |-> StripLead(quo), rem |-> rem]
    ELSE DivPlace(num, mult, i, quo, StripLead(Append(rem, num[i])))
NatDiv(num, den) ==
    IF Len(num) < Len(den) THEN [quo |-> <<>>, rem |-> num]
    ELSE DivLoop(num, Multiples(den), Len(den), <<>>, SubSeq(num, 1, Len(den) - 1))

\* The doubles.  A double is m * 2^q with m < 2^53, and m >= 2^52 unless q is
\* -1074, the exponent of the subnormal numbers; the greatest q is 971.
TwoTo52 == <<4, 5, 0, 3, 5, 9, 9, 6, 2, 7, 3, 7, 0, 4, 9, 6>>
TwoTo53 == <<9, 0, 0, 7, 1, 9, 9, 2, 5, 4, 7, 4, 0, 9, 9, 2>>

AtLeast(n, least) == IF n < least THEN least ELSE n

\* the least q from q on with num / den < 2^(q + 53), den doubled for every step
RECURSIVE ExponentFrom(_, _, _)
ExponentFrom(num, den, q) ==
    IF NatLess(num, den) THEN q ELSE ExponentFrom(num, NatMulSmall(den, 2), q + 1)

\* the exponent q of the double below d * 10^e: the search starts under the
\* logarithm of the power of ten below the value, 3.321928 being below that of 10
ExponentNear(d, e, q) ==
    AtLeast(ExponentFrom(NatTimesPow2(NatShift(d, AtLeast(e, 0)), AtLeast(0 - (q + 53), 0)),
                         NatTimesPow2(NatShift(<<1>>, AtLeast(0 - e, 0)), AtLeast(q + 53, 0)), q),
            0 - 1074)
ExponentOf(d, e) == ExponentNear(d, e, ((Len(d) + e - 1) * 3321928) \div 1000000 - 54)

\* the mantissa of the double nearest to num / den, given what the division
\* left: a half is rounded to the even mantissa
IsOdd(m) == m # <<>> /\ m[Len(m)] % 2 = 1
RoundUp(m, rem2, den) == NatLess(den, rem2) \/ (rem2 = den /\ IsOdd(m))
NearestTo(div, den) ==
    IF RoundUp(div.quo, NatMulSmall(div.rem, 2), den) THEN NatAdd(div.quo, <<1>>) ELSE div.quo
NearestMantissa(num, den) == NearestTo(NatDiv(num, den), den)
MantissaAt(d, e, q) ==
    NearestMantissa(NatTimesPow2(NatShift(d, AtLeast(e, 0)), AtLeast(0 - q, 0)),
                    NatTimesPow2(NatShift(<<1>>, AtLeast(0 - e, 0)), AtLeast(q, 0)))

\* The fewest digits that tell the double m * 2^q from every other.  The value
\* is r / s, and mp / s and mm / s are half the way to the doubles above and
\* below; the doubles with an even mantissa are read from their ends too.
\* [dig, point]: the value printed is 0.d1d2... * 10^point.
RECURSIVE Generate(_, _, _, _, _, _)
GenEnd(d, low, high, r2, s) ==
    IF low /\ ~high THEN d
    ELSE IF high /\ ~low THEN d + 1
    ELSE IF NatLess(r2, s) THEN d
    ELSE IF NatLess(s, r2) THEN d + 1
    ELSE IF d % 2 = 0 THEN d ELSE d + 1
GenTest(r, smult, mp, mm, even, out, d, low, high) ==
    IF ~low /\ ~high THEN Generate(r, smult, mp, mm, even, Append(out, d))
    ELSE Append(out, GenEnd(d, low, high, NatMulSmall(r, 2), smult[2]))
GenRest(r, smult, mp, mm, even, out, d) ==
    GenTest(r, smult, mp, mm, even, out, d,
            NatLess(r, mm) \/ (even /\ r = mm),
            NatLess(smult[2], NatAdd(r, mp)) \/ (even /\ NatAdd(r, mp) = smult[2]))
GenDigit(r10, smult, mp, mm, even, out, d) ==
    GenRest(NatSub(r10, smult[d + 1]), smult, mp, mm, even, out, d)
Generate(r, smult, mp, mm, even, out) ==
    IF Len(out) > 20 THEN out
    ELSE GenDigit(NatShift(r, 1), smult, NatShift(mp, 1), NatShift(mm, 1), even, out,
                  TimesIn(smult, NatShift(r, 1)))

\* r, mp and mm over s, scaled by the power of ten k that puts the upper end of
\* the doubles read as this one under 1
Scaled(r, s, mp, mm, even, k) ==
    [point |-> k,
     dig |-> Generate(NatShift(r, AtLeast(0 - k, 0)), Multiples(NatShift(s, AtLeast(k, 0))),
                      NatShift(mp, AtLeast(0 - k, 0)), NatShift(mm, AtLeast(0 - k, 0)), even, <<>>)]
\* high / s is 10^k or more, or above it when that end is not read as this double
Over(high, s, even, k) ==
    IF even THEN ~NatLess(NatShift(high, AtLeast(0 - k, 0)), NatShift(s, AtLeast(k, 0)))
    ELSE NatLess(NatShift(s, AtLeast(k, 0)), NatShift(high, AtLeast(0 - k, 0)))
PointOf(high, s, even, k) ==
    IF ~Over(high, s, even, k - 1) THEN k - 1
    ELSE IF ~Over(high, s, even, k) THEN k
    ELSE k + 1
ShortestOf(r, s, mp, mm, even) ==
    Scaled(r, s, mp, mm, even, PointOf(NatAdd(r, mp), s, even, Len(NatAdd(r, mp)) - Len(s)))
\* the double below is half as far when m is the least mantissa
Shortest(m, q, narrow) ==
    ShortestOf(NatTimesPow2(m, AtLeast(q, 0) + 1 + narrow), NatTimesPow2(<<1>>, AtLeast(0 - q, 0) + 1 + narrow),
               NatTimesPow2(<<1>>, AtLeast(q, 0) + narrow), NatTimesPow2(<<1>>, AtLeast(q, 0)),
               ~IsOdd(m))

\* the number of the double m * 2^q
Fewest(neg, p) ==
    [neg |-> neg, dig |-> StripTrail(p.dig), exp |-> p.point - Len(StripTrail(p.dig)), inf |-> FALSE]
Normal(neg, m, q) ==
    IF q > 971 THEN Infinite(neg)
    ELSE Fewest(neg, Shortest(m, q, IF m = TwoTo52 /\ q > 0 - 1074 THEN 1 ELSE 0))
DoubleOf(neg, m, q) ==
    IF m = <<>> THEN Zero
    ELSE Normal(neg, IF m = TwoTo53 THEN TwoTo52 ELSE m, IF m = TwoTo53 THEN q + 1 ELSE q)
Rounded(x, q) == DoubleOf(x.neg, MantissaAt(x.dig, x.exp, q), q)

\* the double nearest to the decimal x: Infinity from 10^309 on and zero under
\* 10^-324; a decimal of up to 15 digits within the normal doubles is the
\* shortest that its double has
NearestDouble(x) ==
    IF Point(x) >= 310 THEN Infinite(x.neg)
    ELSE IF Point(x) <= 0 - 324 THEN Zero
    ELSE IF Len(x.dig) <= 15 /\ Point(x) >= 0 - 306 /\ Point(x) <= 308 THEN x
    ELSE Rounded(x, ExponentOf(x.dig, x.exp))

\* the number with the sign neg, the digits d and the power of ten exp
Trimmed(neg, d, exp, len) ==
    IF d = <<>> THEN Zero
    ELSE NearestDouble([neg |-> neg, dig |-> d, exp |-> exp + (len - Len(d)), inf |-> FALSE])
Stripped(neg, d, exp) == Trimmed(neg, StripTrail(d), exp, Len(d))
Dec(neg, d, exp) == Stripped(neg, StripLead(d), exp)

\* the number of an integer of the model, all of which are doubles
Whole(neg, d) ==
    [neg |-> neg, dig |-> StripTrail(d), exp |-> Len(d) - Len(StripTrail(d)), inf |-> FALSE]
DecOfInt(n) == IF n < 0 THEN Whole(TRUE, DigitsOfNat(0 - n)) ELSE Whole(FALSE, DigitsOfNat(n))

\* a < b
MagLess(a, b) ==
    IF a.inf THEN FALSE
    ELSE IF b.inf THEN TRUE
    ELSE IF b.dig = <<>> THEN FALSE
    ELSE IF a.dig = <<>> THEN TRUE
    ELSE IF Point(a) # Point(b) THEN Point(a) < Point(b)
    ELSE FracLess(a.dig, b.dig)
DecLess(a, b) ==
    IF a.neg # b.neg THEN a.neg
    ELSE IF a.neg THEN MagLess(b, a)
    ELSE MagLess(a, b)

\* Number.prototype.toString
DigitChars(d) == [i \in 1..Len(d) |-> DigitChar(d[i])]
RECURSIVE Zeros(_)
Zeros(n) == IF n <= 0 THEN <<>> ELSE <<"0">> \o Zeros(n - 1)
ExponentText(e) == <<"e", IF e < 0 THEN "-" ELSE "+">> \o NumToString(IF e < 0 THEN 0 - e ELSE e)
Magnitude(d, n, k) ==
    IF n <= k /\ k <= 21 THEN DigitChars(d) \o Zeros(k - n)
    ELSE IF 0 < k /\ k <= 21
    THEN DigitChars(SubSeq(d, 1, k)) \o <<".">> \o DigitChars(SubSeq(d, k + 1, n))
    ELSE IF 0 - 6 < k /\ k <= 0 THEN <<"0", ".">> \o Zeros(0 - k) \o DigitChars(d)
    ELSE IF n = 1 THEN DigitChars(d) \o ExponentText(k - 1)
    ELSE <<DigitChar(d[1]), ".">> \o DigitChars(SubSeq(d, 2, n)) \o ExponentText(k - 1)
DecToString(x) ==
    IF x.inf THEN (IF x.neg THEN <<"-">> ELSE <<>>) \o <<"I", "n", "f", "i", "n", "i", "t", "y">>
    ELSE IF x.dig = <<>> THEN <<"0">>
    ELSE (IF x.neg THEN <<"-">> ELSE <<>>) \o Magnitude(x.dig, Len(x.dig), Point(x))

\* Number(s) of a trimmed string, as [nan, n]: StringNumericLiteral
NaN == [nan |-> TRUE, n |-> Zero]
Finite(x) == [nan |-> FALSE, n |-> x]

HexDigits == Digits \cup {"a", "b", "c", "d", "e", "f", "A", "B", "C", "D", "E", "F"}
HexVal(c) ==
    IF c \in Digits THEN DigitVal(c)
    ELSE IF c \in {"a", "A"} THEN 10
    ELSE IF c \in {"b", "B"} THEN 11
    ELSE IF c \in {"c", "C"} THEN 12
    ELSE IF c \in {"d", "D"} THEN 13
    ELSE IF c \in {"e", "E"} THEN 14
    ELSE 15

\* the digits s in the base given, as decimal digits: acc is the number of the
\* digits before the place i
RECURSIVE RadixFrom(_, _, _, _)
RadixFrom(s, base, i, acc) ==
    IF Len(acc) < 0 \/ i > Len(s) THEN acc
    ELSE RadixFrom(s, base, i + 1, NatAdd(NatMulSmall(acc, base), DigitsOfNat(HexVal(s[i]))))
RadixDigits(s, base) == RadixFrom(s, base, 1, <<>>)

\* what a numeral says: the sign, the decimal digits and the power of ten of
\* the last of them, or Infinity; nan when the string is no numeral
Numeral(neg, d, exp) == [nan |-> FALSE, inf |-> FALSE, neg |-> neg, dig |-> d, exp |-> exp]
NotNumeral == [nan |-> TRUE, inf |-> FALSE, neg |-> FALSE, dig |-> <<>>, exp |-> 0]

\* 0x, 0o and 0b literals: s the characters after the prefix
RadixLiteral(s, base, class) ==
    IF s # <<>> /\ \A i \in 1..Len(s) : s[i] \in class
    THEN Numeral(FALSE, RadixDigits(s, base), 0)
    ELSE NotNumeral

RECURSIVE StripLeadChars(_)
StripLeadChars(s) == IF s # <<>> /\ Head(s) = "0" THEN StripLeadChars(Tail(s)) ELSE s

\* the value of the digits of an exponent; beyond six digits every exponent is
\* out of the range of the doubles alike
ExponentValue(d) ==
    IF Len(StripLeadChars(d)) > 6 THEN 999999 ELSE DigitsValue(StripLeadChars(d))

\* the decimal literal s with the digits up to i1, the fraction from f0 up to f1
\* and the exponent from e1 (after its sign) up to e2; a position is that of the
\* character after the part
DecimalParts(s, neg, i1, f0, f1, hasExp, e1, e2) ==
    IF (i1 - 1) + (f1 - f0) = 0 THEN NotNumeral
    ELSE IF hasExp /\ (e2 = e1 \/ e2 # Len(s) + 1) THEN NotNumeral
    ELSE IF ~hasExp /\ f1 # Len(s) + 1 THEN NotNumeral
    ELSE Numeral(neg,
                 [i \in 1..((i1 - 1) + (f1 - f0)) |->
                     DigitVal(IF i < i1 THEN s[i] ELSE s[f0 + (i - i1)])],
                 (IF ~hasExp THEN 0
                  ELSE IF s[e1 - 1] = "-" THEN 0 - ExponentValue(SubSeq(s, e1, e2 - 1))
                  ELSE ExponentValue(SubSeq(s, e1, e2 - 1))) - (f1 - f0))

ExponentAt(s, neg, i1, f0, f1, hasExp, e1) ==
    DecimalParts(s, neg, i1, f0, f1, hasExp, e1, RunEnd(s, e1, Digits))
FractionAt(s, neg, i1, f0, f1) ==
    ExponentAt(s, neg, i1, f0, f1, f1 <= Len(s) /\ s[f1] \in {"e", "E"},
               IF f1 + 1 <= Len(s) /\ s[f1 + 1] \in {"+", "-"} THEN f1 + 2 ELSE f1 + 1)
DigitsAt(s, neg, i1) ==
    IF i1 <= Len(s) /\ s[i1] = "."
    THEN FractionAt(s, neg, i1, i1 + 1, RunEnd(s, i1 + 1, Digits))
    ELSE FractionAt(s, neg, i1, i1, i1)
DecimalLiteral(s, neg) ==
    IF s = <<"I", "n", "f", "i", "n", "i", "t", "y">> THEN [nan |-> FALSE, inf |-> TRUE, neg |-> neg, dig |-> <<>>, exp |-> 0]
    ELSE DigitsAt(s, neg, RunEnd(s, 1, Digits))

NumeralOf(t) ==
    IF t = <<>> THEN Numeral(FALSE, <<>>, 0)
    ELSE IF Len(t) >= 2 /\ t[1] = "0" /\ t[2] \in {"x", "X"}
    THEN RadixLiteral(DropFirst(t, 2), 16, HexDigits)
    ELSE IF Len(t) >= 2 /\ t[1] = "0" /\ t[2] \in {"o", "O"}
    THEN RadixLiteral(DropFirst(t, 2), 8, {"0", "1", "2", "3", "4", "5", "6", "7"})
    ELSE IF Len(t) >= 2 /\ t[1] = "0" /\ t[2] \in {"b", "B"}
    THEN RadixLiteral(DropFirst(t, 2), 2, {"0", "1"})
    ELSE IF t[1] \in {"+", "-"} THEN DecimalLiteral(Tail(t), t[1] = "-")
    ELSE DecimalLiteral(t, FALSE)

\* the number of a numeral: the double nearest to it
NumberOfNumeral(p) ==
    IF p.nan THEN NaN
    ELSE IF p.inf THEN Finite(Infinite(p.neg))
    ELSE Finite(Dec(p.neg, p.dig, p.exp))

\* Number(s): white space around the numeral is ignored
NumberOfString(s) == NumberOfNumeral(NumeralOf(Trim(s)))

\* !isNaN(Number(s))
IsNumeric(s) == ~NumeralOf(Trim(s)).nan
\* Number(s), of a string that is numeric
ToNumber(s) == NumberOfString(s).n

\* the number values: of an integer of the model, and of a decimal value
Num(n) == [t |-> "num", v |-> DecOfInt(n)]
NumOf(x) == [t |-> "num", v |-> x]

\* String(v) of an object that is no array
ObjectText == <<"[", "o", "b", "j", "e", "c", "t", " ", "O", "b", "j", "e", "c", "t", "]">>

\* String(v), of a value it does not throw for
JsString(val) ==
    CASE val.t = "str" -> val.v
      [] val.t = "num" -> DecToString(val.v)
      [] val.t = "bool" -> IF val.v THEN <<"t", "r", "u", "e">> ELSE <<"f", "a", "l", "s", "e">>
      [] val.t = "arr" -> Join(val.v, <<",">>)
      [] val.t = "null" -> <<"n", "u", "l", "l">>
      [] val.t = "obj" -> ObjectText
      [] val.t = "nodes" -> Join([i \in 1..Len(val.v) |-> ObjectText], <<",">>)
      [] val.t = "fun" -> <<"f", "u", "n", "c", "t", "i", "o", "n", " ">> \o val.v \o <<"(", ")", " ", "{", " ", "[", "n", "a", "t", "i", "v", "e", " ", "c", "o", "d", "e", "]", " ", "}">>
      [] OTHER -> <<"u", "n", "d", "e", "f", "i", "n", "e", "d">>

\* the truthiness of a JavaScript value
Truthy(val) ==
    CASE val.t = "str" -> val.v # <<>>
      [] val.t = "num" -> val.v # Zero
      [] val.t = "bool" -> val.v
      [] val.t \in {"arr", "obj", "nodes", "fun"} -> TRUE
      [] OTHER -> FALSE

\* An object with insertion-ordered keys: a sequence of <<key, value>> pairs.
HasKey(d, k) == \E i \in 1..Len(d) : d[i][1] = k
Get(d, k) == IF HasKey(d, k) THEN d[CHOOSE i \in 1..Len(d) : d[i][1] = k][2] ELSE Undef
\* a key that is a canonical array index: a whole number below 2^32 - 1 written without a leading zero
IsArrayIndex(k) ==
    /\ Len(k) >= 1
    /\ \A i \in 1..Len(k) : k[i] \in Digits
    /\ Len(k) = 1 \/ k[1] # "0"
    /\ NatLess([i \in 1..Len(k) |-> DigitVal(k[i])], <<4, 2, 9, 4, 9, 6, 7, 2, 9, 5>>)
IndexLess(a, b) == NatLess([i \in 1..Len(a) |-> DigitVal(a[i])], [i \in 1..Len(b) |-> DigitVal(b[i])])
\* where a new key is listed: array indexes first in ascending order, then the other keys in the order they were added
PlaceOfKey(d, k) ==
    IF IsArrayIndex(k)
    THEN Cardinality({i \in 1..Len(d) : IsArrayIndex(d[i][1]) /\ IndexLess(d[i][1], k)})
    ELSE Len(d)
Put(d, k, val) ==
    IF HasKey(d, k)
    THEN [i \in 1..Len(d) |-> IF d[i][1] = k THEN <<k, val>> ELSE d[i]]
    ELSE SubSeq(d, 1, PlaceOfKey(d, k)) \o << <<k, val>> >> \o SubSeq(d, PlaceOfKey(d, k) + 1, Len(d))

\* obj[k] = val, k a key read from the input: __proto__ names the accessor of
\* Object.prototype, whose setter leaves the own keys of the object alone
K_proto == <<"_", "_", "p", "r", "o", "t", "o", "_", "_">>
Assign(d, k, val) == IF k = K_proto THEN d ELSE Put(d, k, val)

\* String(v) and ToPrimitive(v) throw a TypeError for an object that has a key
\* toString of its own: the value of the key is no function, and the valueOf it
\* inherits returns the object
K_toString == <<"t", "o", "S", "t", "r", "i", "n", "g">>
StringThrows(val) == val.t = "obj" /\ HasKey(val.v, K_toString)

\* the members of Object.prototype, which every object inherits
ProtoFunctions ==
    {<<"_", "_", "d", "e", "f", "i", "n", "e", "G", "e", "t", "t", "e", "r", "_", "_">>,
     <<"_", "_", "d", "e", "f", "i", "n", "e", "S", "e", "t", "t", "e", "r", "_", "_">>,
     <<"h", "a", "s", "O", "w", "n", "P", "r", "o", "p", "e", "r", "t", "y">>,
     <<"_", "_", "l", "o", "o", "k", "u", "p", "G", "e", "t", "t", "e", "r", "_", "_">>,
     <<"_", "_", "l", "o", "o", "k", "u", "p", "S", "e", "t", "t", "e", "r", "_", "_">>,
     <<"i", "s", "P", "r", "o", "t", "o", "t", "y", "p", "e", "O", "f">>,
     <<"p", "r", "o", "p", "e", "r", "t", "y", "I", "s", "E", "n", "u", "m", "e", "r", "a", "b", "l", "e">>,
     <<"t", "o", "S", "t", "r", "i", "n", "g">>,
     <<"v", "a", "l", "u", "e", "O", "f">>,
     <<"t", "o", "L", "o", "c", "a", "l", "e", "S", "t", "r", "i", "n", "g">>}
Inherited(k) ==
    IF k = <<"c", "o", "n", "s", "t", "r", "u", "c", "t", "o", "r">> THEN Fun(<<"O", "b", "j", "e", "c", "t">>)
    ELSE IF k \in ProtoFunctions THEN Fun(k)
    ELSE IF k = K_proto THEN Obj(<<>>)
    ELSE Undef
\* obj[k], read
Prop(d, k) == IF HasKey(d, k) THEN Get(d, k) ELSE Inherited(k)

-----------------------------------------------------------------------------
(* Field names and literals                                                *)

K_title == <<"t", "i", "t", "l", "e">>
K_id == <<"i", "d">>
K_tags == <<"t", "a", "g", "s">>
K_completed == <<"c", "o", "m", "p", "l", "e", "t", "e", "d">>
K_skipped == <<"s", "k", "i", "p", "p", "e", "d">>
K_priority == <<"p", "r", "i", "o", "r", "i", "t", "y">>
K_stakeholders == <<"s", "t", "a", "k", "e", "h", "o", "l", "d", "e", "r", "s">>
K_stakeholder == <<"s", "t", "a", "k", "e", "h", "o", "l", "d", "e", "r">>
K_due == <<"d", "u", "e">>
K_parent == <<"p", "a", "r", "e", "n", "t">>
S_true == <<"t", "r", "u", "e">>
S_false == <<"f", "a", "l", "s", "e">>

-----------------------------------------------------------------------------
(* parser.js                                                               *)

\* isQuotedString / the test of stripQuotes and parseValueToken
isQuotedString(tok) ==
    \/ (StartsWith(tok, <<"\"">>) /\ EndsWith(tok, <<"\"">>))
    \/ (StartsWith(tok, <<BQ>>) /\ EndsWith(tok, <<BQ>>))

\* tok.slice(1, -1)
Slice1(tok) == SubSeq(tok, 2, Len(tok) - 1)

stripQuotes(tok) == IF isQuotedString(tok) THEN Slice1(tok) ELSE tok

parseValueToken(tok0) ==
    IF tok0 = <<>> THEN Str(<<>>)
    ELSE LET tok == Trim(tok0)
         IN  IF isQuotedString(tok) THEN Str(Slice1(tok))
             ELSE IF tok = S_true THEN Bool(TRUE)
             ELSE IF tok = S_false THEN Bool(FALSE)
             ELSE IF IsNumeric(tok) THEN NumOf(ToNumber(tok))
             ELSE Str(tok)

\* The scanner of tokenizeRespectingQuotes: st = [out, cur, inDouble, inBack].
RECURSIVE TokenizeFrom(_, _, _)
TokenizeFrom(s, i, st) ==
    IF i > Len(s)
    THEN IF Trim(st.cur) # <<>> THEN Append(st.out, Trim(st.cur)) ELSE st.out
    ELSE LET ch == s[i]
         IN  IF ch = "\"" /\ ~st.inBack
             THEN IF st.inDouble
                  THEN TokenizeFrom(s, i + 1, [st EXCEPT !.out = Append(@, Trim(st.cur \o <<ch>>)),
                                                          !.cur = <<>>, !.inDouble = FALSE])
                  ELSE TokenizeFrom(s, i + 1, [st EXCEPT !.cur = @ \o <<ch>>, !.inDouble = TRUE])
             ELSE IF ch = BQ /\ ~st.inDouble
             THEN IF st.inBack
                  THEN TokenizeFrom(s, i + 1, [st EXCEPT !.out = Append(@, Trim(st.cur \o <<ch>>)),
                                                          !.cur = <<>>, !.inBack = FALSE])
                  ELSE TokenizeFrom(s, i + 1, [st EXCEPT !.cur = @ \o <<ch>>, !.inBack = TRUE])
             ELSE IF ~st.inDouble /\ ~st.inBack /\ (ch = "," \/ IsWs(ch))
             THEN TokenizeFrom(s, RunEnd(s, i + 1, {",", " ", "\t", "\n", "\r"}),
                               IF Trim(st.cur) # <<>>
                               THEN [st EXCEPT !.out = Append(@, Trim(st.cur)), !.cur = <<>>]
                               ELSE st)
             ELSE TokenizeFrom(s, i + 1, [st EXCEPT !.cur = @ \o <<ch>>])

tokenizeRespectingQuotes(s) ==
    TokenizeFrom(s, 1, [out |-> <<>>, cur |-> <<>>, inDouble |-> FALSE, inBack |-> FALSE])

\* The prefix loop of parseBulletLineInline: returns [i, data], i the index of the
\* first token that holds a colon (or one past the last token).
RECURSIVE PrefixLoop(_, _, _)
PrefixLoop(tokens, i, data) ==
    IF i > Len(tokens) THEN [i |-> i, data |-> data]
    ELSE LET tok == tokens[i]
         IN  IF HasChar(tok, ":") THEN [i |-> i, data |-> data]
             ELSE IF isQuotedString(tok)
             THEN PrefixLoop(tokens, i + 1,
                             IF ~Truthy(Get(data, K_title))
                             THEN Put(data, K_title, Str(stripQuotes(tok))) ELSE data)
             ELSE IF tok = <<"x">> THEN PrefixLoop(tokens, i + 1, Put(data, K_completed, Bool(TRUE)))
             ELSE IF tok = <<"-">> THEN PrefixLoop(tokens, i + 1, Put(data, K_skipped, Bool(TRUE)))
             ELSE IF Len(tok) = 1 /\ tok[1] \in {"A", "B", "C", "D"}
             THEN PrefixLoop(tokens, i + 1, Put(data, K_priority, Str(tok)))
             ELSE IF StartsWith(tok, <<"@">>)
             THEN PrefixLoop(tokens, i + 1, Put(data, K_stakeholder, Str(Tail(tok))))
             ELSE IF StartsWith(tok, <<"#">>)
             THEN PrefixLoop(tokens, i + 1,
                             IF ~Truthy(Get(data, K_tags))
                             THEN Put(data, K_tags, Arr(<<Tail(tok)>>))
                             ELSE Put(data, K_tags, Arr(Append(Get(data, K_tags).v, Tail(tok)))))
             ELSE PrefixLoop(tokens, i + 1, data)

\* One attempt of kvRegex at position p of s:
\*   /([A-Za-z_][A-Za-z0-9_-]*):\s*(BQ[^BQ]*BQ|"[^"]*"|[^\s,]+)/     (BQ the backtick)
\* returns [ok, key, val, end], end the position after the match.
ClosingAt(s, from, q) ==
    LET ix == {j \in from..Len(s) : s[j] = q} IN IF ix = {} THEN 0 ELSE MinOf(ix)

RECURSIVE BareEnd(_, _)
BareEnd(s, p) == IF p <= Len(s) /\ ~IsWs(s[p]) /\ s[p] # "," THEN BareEnd(s, p + 1) ELSE p

KvMatchAt(s, p) ==
    LET no == [ok |-> FALSE, key |-> <<>>, val |-> <<>>, end |-> p]
    IN  IF p > Len(s) \/ ~IsIdStart(s[p]) THEN no
        ELSE LET e == RunEnd(s, p + 1, IdChars)
             IN  IF e > Len(s) \/ s[e] # ":" THEN no
                 ELSE LET v == RunEnd(s, e + 1, {" ", "\t", "\n", "\r"})
                          key == SubSeq(s, p, e - 1)
                          cb == IF v <= Len(s) /\ s[v] = BQ THEN ClosingAt(s, v + 1, BQ) ELSE 0
                          cd == IF v <= Len(s) /\ s[v] = "\"" THEN ClosingAt(s, v + 1, "\"") ELSE 0
                          be == BareEnd(s, v)
                      IN  IF cb > 0 THEN [ok |-> TRUE, key |-> key, val |-> SubSeq(s, v, cb), end |-> cb + 1]
                          ELSE IF cd > 0 THEN [ok |-> TRUE, key |-> key, val |-> SubSeq(s, v, cd), end |-> cd + 1]
                          ELSE IF be > v THEN [ok |-> TRUE, key |-> key, val |-> SubSeq(s, v, be - 1), end |-> be]
                          ELSE no

\* while ((m = kvRegex.exec(restStr)) !== null) node.data[m[1]] = parseValueToken(m[2])
RECURSIVE KvLoop(_, _, _)
\* m is the match attempted at p: a match is stored and the scan resumes after it
KvStep(s, p, data, m) ==
    IF m.ok THEN KvLoop(s, m.end, Assign(data, m.key, parseValueToken(m.val)))
    ELSE KvLoop(s, p + 1, data)

KvLoop(s, p, data) == IF p > Len(s) THEN data ELSE KvStep(s, p, data, KvMatchAt(s, p))

\* parseBulletLineInline(afterDash, node): the node's data after the bullet line
\* restStr = tokens.slice(i).join(' '), scanned by kvRegex
ParseRest(tokens, pre) == KvLoop(Join(SubSeq(tokens, pre.i, Len(tokens)), <<" ">>), 1, pre.data)

ParseTokens(tokens) == ParseRest(tokens, PrefixLoop(tokens, 1, <<>>))

parseBulletLineInline(afterDash) == ParseTokens(tokenizeRespectingQuotes(afterDash))

\* The inner loop of a multi-line block: lines indented deeper than the key line,
\* blank lines included.  Returns [i, collected].
RECURSIVE CollectBlock(_, _, _, _)
CollectBlock(lines, i, blockIndent, collected) ==
    IF i > Len(lines) THEN [i |-> i, collected |-> collected]
    ELSE LET contRaw == ReplaceTabs(lines[i])
             contTrim == Trim(contRaw)
             contIndent == IndentOf(contRaw)
         IN  IF contTrim = <<>>
             THEN CollectBlock(lines, i + 1, blockIndent, Append(collected, <<>>))
             ELSE IF contIndent <= blockIndent THEN [i |-> i, collected |-> collected]
             ELSE CollectBlock(lines, i + 1, blockIndent,
                               Append(collected, DropFirst(contRaw, blockIndent + 2)))

\* The loop that consumes the indented key: lines that follow a bullet.
\* Returns [i, data], i the index of the first line that is not consumed.
RECURSIVE Continuation(_, _, _, _)
\* b is the multi-line block collected for key
ContBlock(lines, indent, data, key, b) ==
    Continuation(lines, b.i, indent, Assign(data, key, Str(Join(b.collected, <<"\n">>))))

\* a key: value line, val the trimmed text after the colon
ContValue(lines, i, indent, data, nextIndent, key, val) ==
    IF val = <<"|">>
    THEN ContBlock(lines, indent, data, key, CollectBlock(lines, i + 1, nextIndent, <<>>))
    ELSE Continuation(lines, i + 1, indent, Assign(data, key, parseValueToken(val)))

\* a line indented deeper than the bullet; c is the position of the colon of its key
ContKey(lines, i, indent, data, nextIndent, nextTrim, c) ==
    IF c = 0 THEN [i |-> i, data |-> data]
    ELSE ContValue(lines, i, indent, data, nextIndent,
                   SubSeq(nextTrim, 1, c - 1), Trim(DropFirst(nextTrim, c)))

ContLine(lines, i, indent, data, nextRaw, nextTrim) ==
    IF nextTrim = <<>> THEN Continuation(lines, i + 1, indent, data)
    ELSE IF StartsWith(nextTrim, <<"-">>) THEN [i |-> i, data |-> data]
    ELSE IF IndentOf(nextRaw) > indent
    THEN ContKey(lines, i, indent, data, IndentOf(nextRaw), nextTrim, KeyValueAt(nextTrim))
    ELSE [i |-> i, data |-> data]

Continuation(lines, i, indent, data) ==
    IF i > Len(lines) THEN [i |-> i, data |-> data]
    ELSE ContLine(lines, i, indent, data, ReplaceTabs(lines[i]), Trim(ReplaceTabs(lines[i])))

-----------------------------------------------------------------------------
(* utils.js: computeDeterministicId                                        *)

\* JSON.stringify of a string
RECURSIVE JsonEscape(_)
JsonEscape(s) ==
    IF s = <<>> THEN <<>>
    ELSE (CASE Head(s) = "\"" -> <<"\\", "\"">>
            [] Head(s) = "\\" -> <<"\\", "\\">>
            [] Head(s) = "\n" -> <<"\\", "n">>
            [] Head(s) = "\t" -> <<"\\", "t">>
            [] Head(s) = "\r" -> <<"\\", "r">>
            [] OTHER -> <<Head(s)>>) \o JsonEscape(Tail(s))

JsonString(s) == <<"\"">> \o JsonEscape(s) \o <<"\"">>

RECURSIVE JsonStrings(_)
JsonStrings(a) ==
    IF a = <<>> THEN <<>>
    ELSE IF Len(a) = 1 THEN JsonString(a[1])
    ELSE JsonString(a[1]) \o <<",">> \o JsonStrings(Tail(a))

\* JSON.stringify of a field value
JsonOf(val) ==
    CASE val.t = "str" -> JsonString(val.v)
      [] val.t = "arr" -> <<"[">> \o JsonStrings(val.v) \o <<"]">>
      [] val.t = "null" -> <<"n", "u", "l", "l">>
      [] val.t = "num" /\ val.v.inf -> <<"n", "u", "l", "l">>
      [] OTHER -> JsString(val)

\* x ?? d
Coalesce(x, d) == IF x.t \in {"undef", "null"} THEN d ELSE x

\* JSON.stringify(normalizeForHash(identity)): the keys in sorted order
RECURSIVE JsonFields(_)
JsonFields(pairs) ==
    IF pairs = <<>> THEN <<>>
    ELSE JsonString(Head(pairs)[1]) \o <<":">> \o JsonOf(Head(pairs)[2])
         \o (IF Len(pairs) > 1 THEN <<",">> ELSE <<>>) \o JsonFields(Tail(pairs))

normalizeForHash(identity) ==
    <<"{">> \o JsonFields(<< <<K_due, identity.due>>, <<K_priority, identity.priority>>,
                             <<K_stakeholder, identity.stakeholder>>, <<K_tags, identity.tags>>,
                             <<K_title, identity.title>> >>) \o <<"}">>

\* crypto.createHash('sha1').update(normalized).digest('hex').slice(0, 8) of the
\* normalized identities of the modelled documents, <<normalized, id>>: the values
\* Sha1Of gives, kept so that they are not computed anew for every task.
Sha1Table ==
    << << <<"{", "\"", "d", "u", "e", "\"", ":", "n", "u", "l", "l", ",", "\"", "p", "r", "i", "o", "r", "i", "t", "y", "\"", ":", "n", "u", "l", "l", ",", "\"", "s", "t", "a", "k", "e", "h", "o", "l", "d", "e", "r", "\"", ":", "n", "u", "l", "l", ",", "\"", "t", "a", "g", "s", "\"", ":", "[", "]", ",", "\"", "t", "i", "t", "l", "e", "\"", ":", "\"", "\"", "}">>,
          <<"c", "0", "4", "8", "5", "0", "6", "e">> >>,
       << <<"{", "\"", "d", "u", "e", "\"", ":", "n", "u", "l", "l", ",", "\"", "p", "r", "i", "o", "r", "i", "t", "y", "\"", ":", "n", "u", "l", "l", ",", "\"", "s", "t", "a", "k", "e", "h", "o", "l", "d", "e", "r", "\"", ":", "n", "u", "l", "l", ",", "\"", "t", "a", "g", "s", "\"", ":", "[", "]", ",", "\"", "t", "i", "t", "l", "e", "\"", ":", "\"", "N", "\"", "}">>,
          <<"e", "b", "1", "8", "5", "0", "2", "4">> >>,
       << <<"{", "\"", "d", "u", "e", "\"", ":", "n", "u", "l", "l", ",", "\"", "p", "r", "i", "o", "r", "i", "t", "y", "\"", ":", "n", "u", "l", "l", ",", "\"", "s", "t", "a", "k", "e", "h", "o", "l", "d", "e", "r", "\"", ":", "n", "u", "l", "l", ",", "\"", "t", "a", "g", "s", "\"", ":", "[", "]", ",", "\"", "t", "i", "t", "l", "e", "\"", ":", "\"", "T", "\"", "}">>,
          <<"7", "3", "c", "5", "e", "9", "a", "f">> >>,
       << <<"{", "\"", "d", "u", "e", "\"", ":", "n", "u", "l", "l", ",", "\"", "p", "r", "i", "o", "r", "i", "t", "y", "\"", ":", "n", "u", "l", "l", ",", "\"", "s", "t", "a", "k", "e", "h", "o", "l", "d", "e", "r", "\"", ":", "n", "u", "l", "l", ",", "\"", "t", "a", "g", "s", "\"", ":", "[", "]", ",", "\"", "t", "i", "t", "l", "e", "\"", ":", "\"", "Y", "\"", "}">>,
          <<"b", "4", "5", "6", "1", "8", "a", "4">> >>,
       << <<"{", "\"", "d", "u", "e", "\"", ":", "n", "u", "l", "l", ",", "\"", "p", "r", "i", "o", "r", "i", "t", "y", "\"", ":", "n", "u", "l", "l", ",", "\"", "s", "t", "a", "k", "e", "h", "o", "l", "d", "e", "r", "\"", ":", "n", "u", "l", "l", ",", "\"", "t", "a", "g", "s", "\"", ":", "[", "]", ",", "\"", "t", "i", "t", "l", "e", "\"", ":", "\"", "U", "\"", "}">>,
          <<"e", "5", "9", "3", "2", "c", "0", "7">> >>,
       << <<"{", "\"", "d", "u", "e", "\"", ":", "n", "u", "l", "l", ",", "\"", "p", "r", "i", "o", "r", "i", "t", "y", "\"", ":", "n", "u", "l", "l", ",", "\"", "s", "t", "a", "k", "e", "h", "o", "l", "d", "e", "r", "\"", ":", "n", "u", "l", "l", ",", "\"", "t", "a", "g", "s", "\"", ":", "[", "]", ",", "\"", "t", "i", "t", "l", "e", "\"", ":", "\"", "a", " ", "b", "\"", "}">>,
          <<"e", "8", "d", "9", "f", "7", "c", "f">> >>,
       << <<"{", "\"", "d", "u", "e", "\"", ":", "n", "u", "l", "l", ",", "\"", "p", "r", "i", "o", "r", "i", "t", "y", "\"", ":", "n", "u", "l", "l", ",", "\"", "s", "t", "a", "k", "e", "h", "o", "l", "d", "e", "r", "\"", ":", "n", "u", "l", "l", ",", "\"", "t", "a", "g", "s", "\"", ":", "[", "]", ",", "\"", "t", "i", "t", "l", "e", "\"", ":", "\"", "a", "\\", "\"", "b", "\"", "}">>,
          <<"c", "2", "e", "8", "b", "d", "5", "5">> >>,
       << <<"{", "\"", "d", "u", "e", "\"", ":", "n", "u", "l", "l", ",", "\"", "p", "r", "i", "o", "r", "i", "t", "y", "\"", ":", "n", "u", "l", "l", ",", "\"", "s", "t", "a", "k", "e", "h", "o", "l", "d", "e", "r", "\"", ":", "n", "u", "l", "l", ",", "\"", "t", "a", "g", "s", "\"", ":", "[", "]", ",", "\"", "t", "i", "t", "l", "e", "\"", ":", "\"", "a", BQ, "b", "\"", "}">>,
          <<"0", "a", "7", "0", "6", "7", "5", "a">> >>,
       << <<"{", "\"", "d", "u", "e", "\"", ":", "n", "u", "l", "l", ",", "\"", "p", "r", "i", "o", "r", "i", "t", "y", "\"", ":", "n", "u", "l", "l", ",", "\"", "s", "t", "a", "k", "e", "h", "o", "l", "d", "e", "r", "\"", ":", "n", "u", "l", "l", ",", "\"", "t", "a", "g", "s", "\"", ":", "[", "]", ",", "\"", "t", "i", "t", "l", "e", "\"", ":", "\"", "a", "\\", "\"", "b", BQ, "c", "\"", "}">>,
          <<"3", "7", "9", "6", "1", "9", "f", "4">> >>,
       << <<"{", "\"", "d", "u", "e", "\"", ":", "n", "u", "l", "l", ",", "\"", "p", "r", "i", "o", "r", "i", "t", "y", "\"", ":", "n", "u", "l", "l", ",", "\"", "s", "t", "a", "k", "e", "h", "o", "l", "d", "e", "r", "\"", ":", "n", "u", "l", "l", ",", "\"", "t", "a", "g", "s", "\"", ":", "[", "]", ",", "\"", "t", "i", "t", "l", "e", "\"", ":", "\"", "M", "\"", "}">>,
          <<"3", "4", "7", "6", "7", "3", "8", "e">> >>,
       << <<"{", "\"", "d", "u", "e", "\"", ":", "n", "u", "l", "l", ",", "\"", "p", "r", "i", "o", "r", "i", "t", "y", "\"", ":", "\"", "A", "\"", ",", "\"", "s", "t", "a", "k", "e", "h", "o", "l", "d", "e", "r", "\"", ":", "n", "u", "l", "l", ",", "\"", "t", "a", "g", "s", "\"", ":", "[", "]", ",", "\"", "t", "i", "t", "l", "e", "\"", ":", "\"", "\"", "}">>,
          <<"7", "e", "d", "6", "3", "1", "5", "5">> >>,
       << <<"{", "\"", "d", "u", "e", "\"", ":", "n", "u", "l", "l", ",", "\"", "p", "r", "i", "o", "r", "i", "t", "y", "\"", ":", "\"", "A", "\"", ",", "\"", "s", "t", "a", "k", "e", "h", "o", "l", "d", "e", "r", "\"", ":", "\"", "A", "l", "\"", ",", "\"", "t", "a", "g", "s", "\"", ":", "[", "\"", "p", "l", "\"", "]", ",", "\"", "t", "i", "t", "l", "e", "\"", ":", "\"", "\"", "}">>,
          <<"3", "8", "a", "f", "b", "c", "5", "d">> >> >>

\* SHA-1 (FIPS 180-4) over the bytes of a text.  A 32-bit word is <<hi, lo>>, its
\* two halves of 16 bits.
\* the number whose n bits are f of the bits of x, y and z
RECURSIVE Bitwise(_, _, _, _, _)
Bitwise(f, x, y, z, n) ==
    IF n = 0 THEN 0
    ELSE f[x % 2][y % 2][z % 2] + 2 * Bitwise(f, x \div 2, y \div 2, z \div 2, n - 1)
Mix(f, X, Y, Z) == <<Bitwise(f, X[1], Y[1], Z[1], 16), Bitwise(f, X[2], Y[2], Z[2], 16)>>

\* Ch, Parity and Maj, bit by bit
BitCh == [b \in 0..1 |-> [c \in 0..1 |-> [d \in 0..1 |-> IF b = 1 THEN c ELSE d]]]
BitParity == [b \in 0..1 |-> [c \in 0..1 |-> [d \in 0..1 |-> (b + c + d) % 2]]]
BitMaj == [b \in 0..1 |-> [c \in 0..1 |-> [d \in 0..1 |-> IF b + c + d >= 2 THEN 1 ELSE 0]]]

\* X + Y modulo 2^32
AddLow(X, Y, lo) == <<(X[1] + Y[1] + lo \div 65536) % 65536, lo % 65536>>
Add32(X, Y) == AddLow(X, Y, X[2] + Y[2])
\* X rotated left by n bits, 0 < n < 16, and by 30 bits
Rotl(X, n) ==
    <<(X[1] % 2^(16 - n)) * 2^n + X[2] \div 2^(16 - n),
      (X[2] % 2^(16 - n)) * 2^n + X[1] \div 2^(16 - n)>>
Rotl30(X) == Rotl(<<X[2], X[1]>>, 14)

\* the message: its bytes, the byte 128, zeros up to 56 modulo 64, and the number
\* of its bits in 8 bytes
ZeroBytes(n) == [i \in 1..n |-> 0]
Padded(bytes, bits) ==
    bytes \o <<128>> \o ZeroBytes((119 - (Len(bytes) % 64)) % 64)
    \o <<0, 0, 0, 0, bits \div 16777216, (bits \div 65536) % 256, (bits \div 256) % 256, bits % 256>>
BytesOf(text) == [i \in 1..Len(text) |-> ByteOf(text[i])]

\* the 16 words of the block that starts after the byte at
BlockWords(m, at) ==
    [t \in 1..16 |-> <<m[at + 4 * t - 3] * 256 + m[at + 4 * t - 2],
                       m[at + 4 * t - 1] * 256 + m[at + 4 * t]>>]

\* the word t of the message schedule, from the words before it
ScheduleWord(w, t) ==
    Rotl(Mix(BitParity, Mix(BitParity, w[t - 3], w[t - 8], w[t - 14]), w[t - 16], <<0, 0>>), 1)

\* the message schedule: w, which has the words before a, with the words from a to b;
\* up to three words are computed at once, and a longer range half by half
RECURSIVE Schedule(_, _, _)
Schedule(w, a, b) ==
    IF Len(w) # a - 1 THEN w
    ELSE IF b - a < 3 THEN w \o [t \in 1..(b - a + 1) |-> ScheduleWord(w, a + t - 1)]
    ELSE Schedule(Schedule(w, a, (a + b) \div 2), (a + b) \div 2 + 1, b)

\* f and K of the round t, from 1 to 80
RoundF(t, b, c, d) ==
    IF t <= 20 THEN Mix(BitCh, b, c, d)
    ELSE IF t <= 40 \/ t > 60 THEN Mix(BitParity, b, c, d)
    ELSE Mix(BitMaj, b, c, d)
RoundK(t) ==
    IF t <= 20 THEN <<23170, 31129>>
    ELSE IF t <= 40 THEN <<28377, 60321>>
    ELSE IF t <= 60 THEN <<36635, 48348>>
    ELSE <<51810, 49622>>

\* the working variables <<a, b, c, d, e>> after the round t
Round(w, t, v) ==
    <<Add32(Add32(Add32(Add32(Rotl(v[1], 5), RoundF(t, v[2], v[3], v[4])), v[5]), RoundK(t)), w[t]),
      v[1], Rotl30(v[2]), v[3], v[4]>>

\* the rounds from a to b, half by half; v is computed before they are entered
RECURSIVE Rounds(_, _, _, _)
Rounds(w, a, b, v) ==
    IF Len(v) # 5 THEN v
    ELSE IF a = b THEN Round(w, a, v)
    ELSE Rounds(w, (a + b) \div 2 + 1, b, Rounds(w, a, (a + b) \div 2, v))

\* the hash value after one more block
AddState(h, r) == [i \in 1..5 |-> Add32(h[i], r[i])]
Compress(h, w) == AddState(h, Rounds(w, 1, 80, h))

RECURSIVE Sha1Blocks(_, _, _)
Sha1Blocks(m, at, h) ==
    IF at >= Len(m) THEN h
    ELSE Sha1Blocks(m, at + 64, Compress(h, Schedule(BlockWords(m, at), 17, 80)))

Sha1Init == << <<26437, 8961>>, <<61389, 43913>>, <<39098, 56574>>, <<4146, 21622>>, <<50130, 57840>> >>
Sha1Of(bytes) == Sha1Blocks(Padded(bytes, 8 * Len(bytes)), 0, Sha1Init)

\* the four hexadecimal digits of a half word
HexChar(d) == <<"0", "1", "2", "3", "4", "5", "6", "7", "8", "9", "a", "b", "c", "d", "e", "f">>[d + 1]
Hex4(n) == <<HexChar(n \div 4096), HexChar((n \div 256) % 16), HexChar((n \div 16) % 16), HexChar(n % 16)>>
Hex8(X) == Hex4(X[1]) \o Hex4(X[2])

\* the first 8 hexadecimal digits of the SHA-1 of normalized: read from the table
\* when the table has it, computed otherwise
Sha1Prefix(normalized) ==
    IF \E i \in 1..Len(Sha1Table) : Sha1Table[i][1] = normalized
    THEN Sha1Table[CHOOSE i \in 1..Len(Sha1Table) : Sha1Table[i][1] = normalized][2]
    ELSE Hex8(Sha1Of(BytesOf(normalized))[1])

computeDeterministicId(identity) == Sha1Prefix(normalizeForHash(identity))

-----------------------------------------------------------------------------
(* parser.js: parseFileToTree                                              *)

\* the identity fields the id is computed from
IdentityOf(data) ==
    [title |-> Coalesce(Get(data, K_title), Str(<<>>)),
     tags |-> Coalesce(Get(data, K_tags), Arr(<<>>)),
     priority |-> Coalesce(Get(data, K_priority), Null),
     stakeholder |-> Coalesce(Get(data, K_stakeholder), Null),
     due |-> Coalesce(Get(data, K_due), Null)]

\* node.data.id = id; node.id = id
WithId(node, id) == [node EXCEPT !.data = Put(node.data, K_id, Str(id)), !.id = Str(id)]

ensureIdOnNode(node) ==
    IF Truthy(Get(node.data, K_id))
    THEN [node EXCEPT !.id = Str(JsString(Get(node.data, K_id)))]
    ELSE WithId(node, computeDeterministicId(IdentityOf(node.data)))

\* pops that leave a bullet of the same indentation on the stack
RECURSIVE PopDeeper(_, _)
PopDeeper(stack, indent) ==
    IF stack # <<>> /\ stack[Len(stack)].indent > indent
    THEN PopDeeper(SubSeq(stack, 1, Len(stack) - 1), indent)
    ELSE stack

\* while (stack.length && stack[stack.length - 1].indent >= indent) stack.pop()
RECURSIVE PopStack(_, _)
PopStack(stack, indent) ==
    IF stack # <<>> /\ stack[Len(stack)].indent >= indent
    THEN PopStack(SubSeq(stack, 1, Len(stack) - 1), indent)
    ELSE stack

\* The main loop of parseFileToTree: st = [i, heap, roots, stack].
RECURSIVE ParseLoop(_, _)
\* The new node goes under the node on top of the stack, or among the roots; cont
\* is what the continuation lines gave, stack the stack after the pops.
PushNode(lines, st, indent, trimmed, afterDash, cont, stack) ==
    ParseLoop(lines,
              [i |-> cont.i,
               heap |-> Append(IF stack # <<>>
                               THEN [st.heap EXCEPT ![stack[Len(stack)].node].children =
                                                        Append(@, Len(st.heap) + 1)]
                               ELSE st.heap,
                               ensureIdOnNode([data |-> cont.data, children |-> <<>>,
                                               indent |-> indent, sourceLineIndex |-> st.i - 1,
                                               originalLine |-> trimmed, inline |-> afterDash,
                                               id |-> Undef, parent |-> Undef])),
               roots |-> IF stack # <<>> THEN st.roots ELSE Append(st.roots, Len(st.heap) + 1),
               stack |-> Append(stack, [indent |-> indent, node |-> Len(st.heap) + 1])])

\* a bullet line: its inline part, then its continuation lines
ParseBullet(lines, st, indent, trimmed, afterDash) ==
    PushNode(lines, st, indent, trimmed, afterDash,
             Continuation(lines, st.i + 1, indent, parseBulletLineInline(afterDash)),
             PopStack(st.stack, indent))

ParseLine(lines, st, line, trimmed) ==
    IF ~StartsWith(trimmed, <<"-">>) THEN ParseLoop(lines, [st EXCEPT !.i = @ + 1])
    ELSE ParseBullet(lines, st, IndentOf(line), trimmed, Trim(Tail(trimmed)))

ParseLoop(lines, st) ==
    IF st.i > Len(lines) THEN st
    ELSE ParseLine(lines, st, ReplaceTabs(lines[st.i]), Trim(ReplaceTabs(lines[st.i])))

\* setParents(nodes, parentId), on the heap
RECURSIVE setParents(_, _, _)
\* n.id = n.data.id
NormalId(node) == [node EXCEPT !.id = Get(node.data, K_id)]

\* n.parent = parentId; if (!n.id) ensureIdOnNode(n); n.id = n.data.id
WithParent(node, parentId) ==
    NormalId(IF ~Truthy(node.id) THEN ensureIdOnNode([node EXCEPT !.parent = parentId])
             ELSE [node EXCEPT !.parent = parentId])

\* if (n.children && n.children.length) setParents(n.children, n.id)
SetChildren(h, n) == IF Len(h[n].children) > 0 THEN setParents(h, h[n].children, h[n].id) ELSE h

setParents(h, nodes, parentId) ==
    IF nodes = <<>> THEN h
    ELSE setParents(SetChildren([h EXCEPT ![Head(nodes)] = WithParent(@, parentId)], Head(nodes)),
                    Tail(nodes), parentId)

\* the tasks of the parse state st, with their parents and ids set
TreeOf(st) == [heap |-> setParents(st.heap, st.roots, Null), roots |-> st.roots]

\* The tree parseFileToTree builds from the lines of a file (the lint gate is LintBlocks).
ParseTree(lines) ==
    TreeOf(ParseLoop(lines, [i |-> 1, heap |-> <<>>, roots |-> <<>>, stack |-> <<>>]))

-----------------------------------------------------------------------------
(* serializer.js                                                           *)

\* the length above which a string value is written as a block
LongValueLen == 25
\* the column at which wrapText wraps
WrapWidth == 80
\* options.indentSize
IndentSize == 2

\* line.split(/\s+/)
RECURSIVE SplitWs(_)
SplitWs(s) ==
    LET ix == {i \in 1..Len(s) : IsWs(s[i])}
    IN  IF ix = {} THEN <<s>>
        ELSE LET a == MinOf(ix)
                 b == RunEnd(s, a, {" ", "\t", "\n", "\r"})
             IN  <<SubSeq(s, 1, a - 1)>> \o SplitWs(DropFirst(s, b - 1))

\* the word loop of wrapText: returns the wrapped lines of one long line
RECURSIVE WrapWords(_, _, _, _)
WrapWords(words, currentLine, maxWidth, acc) ==
    IF words = <<>> THEN (IF currentLine # <<>> THEN Append(acc, currentLine) ELSE acc)
    ELSE LET word == Head(words)
         IN  IF Len(currentLine) + Len(word) + 1 <= maxWidth
             THEN WrapWords(Tail(words),
                            currentLine \o (IF currentLine # <<>> THEN <<" ">> ELSE <<>>) \o word,
                            maxWidth, acc)
             ELSE WrapWords(Tail(words), word, maxWidth,
                            IF currentLine # <<>> THEN Append(acc, currentLine) ELSE acc)

RECURSIVE WrapLines(_, _)
WrapLines(existingLines, maxWidth) ==
    IF existingLines = <<>> THEN <<>>
    ELSE (IF Len(Head(existingLines)) <= maxWidth THEN <<Head(existingLines)>>
          ELSE WrapWords(SplitWs(Head(existingLines)), <<>>, maxWidth, <<>>))
         \o WrapLines(Tail(existingLines), maxWidth)

wrapText(text, maxWidth) == WrapLines(SplitOn(text, "\n"), maxWidth)

\* typeof v === 'string' && (v.includes('\n') || v.length > 25)
IsLongValue(val) == val.t = "str" /\ (HasChar(val.v, "\n") \/ Len(val.v) > LongValueLen)

\* v.replace(/"/g, '\\"')
RECURSIVE EscapeQuotes(_)
EscapeQuotes(s) ==
    IF s = <<>> THEN <<>>
    ELSE (IF Head(s) = "\"" THEN <<"\\", "\"">> ELSE <<Head(s)>>) \o EscapeQuotes(Tail(s))

\* typeof v === 'string' && /\s/.test(v) ? `"${v.replace(/"/g, '\\"')}"` : String(v)
ScalarText(val) ==
    IF val.t = "str" /\ HasWs(val.v) THEN <<"\"">> \o EscapeQuotes(val.v) \o <<"\"">>
    ELSE JsString(val)

\* arr.map(s => c + s)
MapPrefix(c, arr) == [i \in 1..Len(arr) |-> <<c>> \o arr[i]]

\* the prefix tokens of a node
PrefixTokens(data) ==
    LET completed == Get(data, K_completed)
        skipped == Get(data, K_skipped)
        priority == Get(data, K_priority)
        stakeholders == Get(data, K_stakeholders)
        tags == Get(data, K_tags)
        stakeholder == Get(data, K_stakeholder)
    IN  (IF completed = Bool(TRUE) THEN << <<"[", "x", "]">> >> ELSE <<>>)
        \o (IF completed = Bool(FALSE) THEN << <<"[", "_", "]">> >> ELSE <<>>)
        \o (IF Truthy(skipped) THEN << <<"[", "-", "]">> >> ELSE <<>>)
        \o (IF Truthy(priority) THEN <<JsString(priority)>> ELSE <<>>)
        \o (IF stakeholders.t = "arr" /\ Len(stakeholders.v) > 0
            THEN MapPrefix("@", stakeholders.v) ELSE <<>>)
        \o (IF tags.t = "arr" /\ Len(tags.v) > 0 THEN MapPrefix("#", tags.v) ELSE <<>>)
        \o (IF Truthy(stakeholder) THEN << <<"@">> \o JsString(stakeholder) >> ELSE <<>>)

\* the quoted title: a backtick when the title holds a double quote
TitleToken(data) ==
    LET title == Get(data, K_title).v
        q == IF HasChar(title, "\"") THEN BQ ELSE "\""
    IN  IF Truthy(Get(data, K_title)) /\ Get(data, K_title).t = "str"
        THEN << <<q>> \o title \o <<q>> >> ELSE <<>>

\* title.includes is not a function: a truthy title that is no string throws
TitleThrows(data) == Truthy(Get(data, K_title)) /\ Get(data, K_title).t # "str"

IdToken(data) ==
    IF Truthy(Get(data, K_id)) THEN << <<"i", "d", ":", " ">> \o JsString(Get(data, K_id)) >> ELSE <<>>

InlineSkipKeys == {K_completed, K_skipped, K_priority, K_stakeholders, K_stakeholder,
                   K_tags, K_title, K_id}

\* the key: value parts of the single-line form
RECURSIVE InlinePairs(_)
InlinePairs(d) ==
    IF d = <<>> THEN <<>>
    ELSE (IF Head(d)[1] \in InlineSkipKeys \/ IsLongValue(Head(d)[2]) THEN <<>>
          ELSE << Head(d)[1] \o <<":", " ">> \o ScalarText(Head(d)[2]) >>)
         \o InlinePairs(Tail(d))

\* the indented lines of the multi-line form
\* the lines of a pipe block, each behind the indent in2
PipeLines(in2, wrappedLines) == [i \in 1..Len(wrappedLines) |-> in2 \o wrappedLines[i]]

\* the lines of the field k: v, in1 and in2 the indents of the key and of a block
FieldLines(k, v, in1, in2) ==
    IF k \in {K_title, K_id} THEN <<>>
    ELSE IF k \in {K_tags, K_stakeholders} /\ v.t = "arr" /\ Len(v.v) > 0
    THEN << in1 \o k \o <<":", " ", "\"">> \o Join(v.v, <<",">>) \o <<"\"">> >>
    ELSE IF k = K_stakeholder THEN <<>>
    ELSE IF IsLongValue(v)
    THEN << in1 \o k \o <<":", " ", "|">> >> \o PipeLines(in2, wrapText(v.v, WrapWidth))
    ELSE << in1 \o k \o <<":", " ">> \o ScalarText(v) >>

RECURSIVE BlockLines(_, _)
BlockLines(d, indent) ==
    IF d = <<>> THEN <<>>
    ELSE FieldLines(Head(d)[1], Head(d)[2],
                    indent \o Spaces(IndentSize), indent \o Spaces(IndentSize * 2))
         \o BlockLines(Tail(d), indent)

HasLongKeys == {K_title, K_id, K_tags, K_completed, K_skipped, K_priority,
                K_stakeholders, K_stakeholder}

\* the lines of one node, without its children
\* hasLongValues || !node.inline
UseMultiline(node) ==
    \/ \E i \in 1..Len(node.data) :
           node.data[i][1] \notin HasLongKeys /\ IsLongValue(node.data[i][2])
    \/ node.inline = <<>>

\* the bullet line, and the indented lines of the multi-line form
NodeText(data, indent, useMultiline) ==
    << indent \o <<"-", " ">>
       \o Join(PrefixTokens(data) \o TitleToken(data)
               \o (IF useMultiline THEN <<>> ELSE InlinePairs(data)) \o IdToken(data), <<" ">>) >>
    \o (IF useMultiline THEN BlockLines(data, indent) ELSE <<>>)

NodeLines(node, level) == NodeText(node.data, Spaces(level * IndentSize), UseMultiline(node))

\* writeNode(node, level) and the loop over an array of nodes
RECURSIVE WriteNodes(_, _, _)
WriteNodes(h, nodes, level) ==
    IF nodes = <<>> THEN <<>>
    ELSE NodeLines(h[Head(nodes)], level)
         \o WriteNodes(h, h[Head(nodes)].children, level + 1)
         \o WriteNodes(h, Tail(nodes), level)

serializeTasksToLines(h, rootTasks) == WriteNodes(h, rootTasks, 0)

\* the nodes writeNode visits
RECURSIVE Visited(_, _)
Visited(h, nodes) ==
    IF nodes = <<>> THEN <<>>
    ELSE <<Head(nodes)>> \o Visited(h, h[Head(nodes)].children) \o Visited(h, Tail(nodes))

\* serializeTasksToLines throws a TypeError
SerializeThrows(h, rootTasks) ==
    \E i \in 1..Len(Visited(h, rootTasks)) : TitleThrows(h[Visited(h, rootTasks)[i]].data)

-----------------------------------------------------------------------------
(* fileSection.js                                                          *)

S_todo == <<"#", "#", " ", "T", "O", "D", "O">>

UpperOf(c) ==
    LET lo == <<"a", "b", "c", "d", "e", "f", "g", "h", "i", "j", "k", "l", "m",
                "n", "o", "p", "q", "r", "s", "t", "u", "v", "w", "x", "y", "z">>
        up == <<"A", "B", "C", "D", "E", "F", "G", "H", "I", "J", "K", "L", "M",
                "N", "O", "P", "Q", "R", "S", "T", "U", "V", "W", "X", "Y", "Z">>
    IN  IF c \in Lower THEN up[CHOOSE i \in 1..26 : lo[i] = c] ELSE c

\* s.toUpperCase()
toUpperCase(s) == [i \in 1..Len(s) |-> UpperOf(s[i])]

LowerOf(c) == IF c \in Upper THEN CHOOSE l \in Lower : UpperOf(l) = c ELSE c

toLowerCase(s) == [i \in 1..Len(s) |-> LowerOf(s[i])]

\* the index of the first line that is the task-section heading, or 0
findTodoHeading(lines) ==
    LET ix == {i \in 1..Len(lines) : toUpperCase(Trim(lines[i])) = S_todo}
    IN  IF ix = {} THEN 0 ELSE MinOf(ix)

\* l.trim().match(/^#{1,2}\s+/)
IsHeadingText(t) ==
    \/ (Len(t) >= 2 /\ t[1] = "#" /\ IsWs(t[2]))
    \/ (Len(t) >= 3 /\ t[1] = "#" /\ t[2] = "#" /\ IsWs(t[3]))

IsSectionHeading(l) == IsHeadingText(Trim(l))

\* a rewrite that puts the new task lines under the heading and keeps the old ones
replaceKeepingOld(lines, taskLines) ==
    LET todoHeadingIdx == findTodoHeading(lines)
    IN  IF todoHeadingIdx = 0 THEN lines \o <<S_todo>> \o taskLines
        ELSE SubSeq(lines, 1, todoHeadingIdx) \o taskLines \o << <<>> >>
             \o SubSeq(lines, todoHeadingIdx + 1, Len(lines))

\* the index of the heading that ends the section, one past the last line when none does
SectionEnd(lines, todoHeadingIdx) ==
    IF \E i \in (todoHeadingIdx + 1)..Len(lines) : IsSectionHeading(lines[i])
    THEN MinOf({i \in (todoHeadingIdx + 1)..Len(lines) : IsSectionHeading(lines[i])})
    ELSE Len(lines) + 1

\* the lines with the section under the heading at todoHeadingIdx replaced; with no
\* heading (0) the section is appended
SpliceSection(lines, taskLines, todoHeadingIdx) ==
    IF todoHeadingIdx = 0
    THEN (IF Len(lines) > 0 /\ Trim(lines[Len(lines)]) # <<>> THEN Append(lines, <<>>) ELSE lines)
         \o <<S_todo>> \o taskLines
    ELSE SubSeq(lines, 1, todoHeadingIdx) \o taskLines \o << <<>> >>
         \o SubSeq(lines, SectionEnd(lines, todoHeadingIdx), Len(lines))

replaceTodoSection(lines, taskLines) == SpliceSection(lines, taskLines, findTodoHeading(lines))

-----------------------------------------------------------------------------
(* linter.js                                                               *)

UNCLOSED_DOUBLE_QUOTE == "TD001"
UNCLOSED_SINGLE_QUOTE == "TD002"
UNCLOSED_BACKTICK_QUOTE == "TD003"
MISPLACED_ASSIGNEE == "TD010"
MISPLACED_TAG == "TD011"
MISPLACED_PRIORITY == "TD012"
UNQUOTED_TITLE_WITH_KV == "TD020"
VALUES_WITHOUT_KEYS == "TD021"
INVALID_INDENTATION == "TD030"
BULLET_MISSING_CONTENT == "TD031"
INVALID_HIERARCHY == "TD032"
LARGE_INDENT_JUMP == "TD033"
MULTILINE_WITHOUT_PIPE == "TD040"
INVALID_MULTILINE_CONTENT == "TD041"
MULTILINE_NO_CONTENT == "TD042"
DUPLICATE_ID == "TD050"
UNQUOTED_SPACED_VALUE == "TD100"

\* an entry of errors or warnings: the 1-based line, the code, the start offset
Issue(lineNo, code, startChar) == [line |-> lineNo, code |-> code, startChar |-> startChar]

\* The scan of validateQuotes; i is 1-based, the offsets recorded are 0-based.
RECURSIVE QuoteScan(_, _, _, _)
QuoteScan(text, i, lineOffset, q) ==
    IF i > Len(text) THEN q
    ELSE LET char == text[i]
             pos == lineOffset + (i - 1)
         IN  IF q.escapeNext THEN QuoteScan(text, i + 1, lineOffset, [q EXCEPT !.escapeNext = FALSE])
             ELSE IF char = "\\" THEN QuoteScan(text, i + 1, lineOffset, [q EXCEPT !.escapeNext = TRUE])
             ELSE IF char = "\"" /\ ~q.inSingleQuote /\ ~q.inBacktick
             THEN QuoteScan(text, i + 1, lineOffset,
                            IF q.inDoubleQuote THEN [q EXCEPT !.inDoubleQuote = FALSE]
                            ELSE [q EXCEPT !.inDoubleQuote = TRUE, !.lastDoubleQuotePos = pos])
             ELSE IF char = "'" /\ ~q.inDoubleQuote /\ ~q.inBacktick
             THEN QuoteScan(text, i + 1, lineOffset,
                            IF q.inSingleQuote THEN [q EXCEPT !.inSingleQuote = FALSE]
                            ELSE [q EXCEPT !.inSingleQuote = TRUE, !.lastSingleQuotePos = pos])
             ELSE IF char = BQ /\ ~q.inDoubleQuote /\ ~q.inSingleQuote
             THEN QuoteScan(text, i + 1, lineOffset,
                            IF q.inBacktick THEN [q EXCEPT !.inBacktick = FALSE]
                            ELSE [q EXCEPT !.inBacktick = TRUE, !.lastBacktickPos = pos])
             ELSE QuoteScan(text, i + 1, lineOffset, q)

QuoteInit == [inDoubleQuote |-> FALSE, inSingleQuote |-> FALSE, inBacktick |-> FALSE,
              escapeNext |-> FALSE, lastDoubleQuotePos |-> -1, lastSingleQuotePos |-> -1,
              lastBacktickPos |-> -1]

\* validateQuotes(text, lineNo, lineOffset): the errors it pushes
\* a report that places every unclosed quote at the start of the text
UnclosedAtStart(text, lineNo, lineOffset) ==
    LET q == QuoteScan(text, 1, lineOffset, QuoteInit)
    IN  (IF q.inDoubleQuote THEN <<Issue(lineNo, UNCLOSED_DOUBLE_QUOTE, lineOffset)>> ELSE <<>>)
        \o (IF q.inSingleQuote THEN <<Issue(lineNo, UNCLOSED_SINGLE_QUOTE, lineOffset)>> ELSE <<>>)
        \o (IF q.inBacktick THEN <<Issue(lineNo, UNCLOSED_BACKTICK_QUOTE, lineOffset)>> ELSE <<>>)

validateQuotes(text, lineNo, lineOffset) ==
    LET q == QuoteScan(text, 1, lineOffset, QuoteInit)
    IN  (IF q.inDoubleQuote THEN <<Issue(lineNo, UNCLOSED_DOUBLE_QUOTE, q.lastDoubleQuotePos)>> ELSE <<>>)
        \o (IF q.inSingleQuote THEN <<Issue(lineNo, UNCLOSED_SINGLE_QUOTE, q.lastSingleQuotePos)>> ELSE <<>>)
        \o (IF q.inBacktick THEN <<Issue(lineNo, UNCLOSED_BACKTICK_QUOTE, q.lastBacktickPos)>> ELSE <<>>)

\* The tokenizer of validateBulletLine; i is 1-based, starts and ends are 0-based.
\* st = [tokens, current, currentStart, inQuote, quoteChar, escapeNext]
RECURSIVE LintTokenize(_, _, _, _)
LintTokenize(content, i, lineOffset, st) ==
    IF i > Len(content)
    THEN IF Trim(st.current) # <<>>
         THEN Append(st.tokens, [text |-> Trim(st.current), start |-> lineOffset + st.currentStart,
                                 end |-> lineOffset + Len(content)])
         ELSE st.tokens
    ELSE LET char == content[i]
         IN  IF st.escapeNext
             THEN LintTokenize(content, i + 1, lineOffset,
                               [st EXCEPT !.current = @ \o <<char>>, !.escapeNext = FALSE])
             ELSE IF char = "\\"
             THEN LintTokenize(content, i + 1, lineOffset,
                               [st EXCEPT !.current = @ \o <<char>>, !.escapeNext = TRUE])
             ELSE IF ~st.inQuote /\ char \in {"\"", BQ, "'"}
             THEN LintTokenize(content, i + 1, lineOffset,
                               [st EXCEPT !.inQuote = TRUE, !.quoteChar = char, !.current = @ \o <<char>>])
             ELSE IF st.inQuote /\ char = st.quoteChar
             THEN LintTokenize(content, i + 1, lineOffset,
                               [st EXCEPT !.inQuote = FALSE, !.quoteChar = "", !.current = @ \o <<char>>])
             ELSE IF ~st.inQuote /\ IsWs(char)
             THEN LET st1 == IF Trim(st.current) # <<>>
                             THEN [st EXCEPT !.tokens = Append(@, [text |-> Trim(st.current),
                                                                   start |-> lineOffset + st.currentStart,
                                                                   end |-> lineOffset + (i - 1)]),
                                             !.current = <<>>]
                             ELSE st
                      j == RunEnd(content, i + 1, {" ", "\t", "\n", "\r"})
                  IN  LintTokenize(content, j, lineOffset, [st1 EXCEPT !.currentStart = j - 1])
             ELSE LintTokenize(content, i + 1, lineOffset, [st EXCEPT !.current = @ \o <<char>>])

LintTokens(content, lineOffset) ==
    LintTokenize(content, 1, lineOffset,
                 [tokens |-> <<>>, current |-> <<>>, currentStart |-> 0, inQuote |-> FALSE,
                  quoteChar |-> "", escapeNext |-> FALSE])

\* /^[A-Dx\-]$/
IsPriorityShorthand(t) == Len(t) = 1 /\ t[1] \in {"A", "B", "C", "D", "x", "-"}

IsPrefixToken(t) == IsPriorityShorthand(t) \/ StartsWith(t, <<"@">>) \/ StartsWith(t, <<"#">>)

\* the boundary between prefixes and content
RECURSIVE PrefixEnd(_, _)
PrefixEnd(tokens, i) ==
    IF i <= Len(tokens) /\ IsPrefixToken(tokens[i].text) THEN PrefixEnd(tokens, i + 1) ELSE i - 1

LintIsQuoted(t) ==
    \/ (StartsWith(t, <<"\"">>) /\ EndsWith(t, <<"\"">>))
    \/ (StartsWith(t, <<BQ>>) /\ EndsWith(t, <<BQ>>))
    \/ (StartsWith(t, <<"'">>) /\ EndsWith(t, <<"'">>))

IsKeyValue(t) == KeyColonAt(t) > 0

\* the check for misplaced prefix tokens after the prefix section; i is 1-based
RECURSIVE Misplaced(_, _, _)
Misplaced(tokens, i, lineNo) ==
    IF i > Len(tokens) THEN <<>>
    ELSE LET token == tokens[i]
             prevEndsColon == i > 1 /\ EndsWith(tokens[i - 1].text, <<":">>)
             nextStartsColon == i < Len(tokens) /\ StartsWith(tokens[i + 1].text, <<":">>)
         IN  (IF LintIsQuoted(token.text) \/ IsKeyValue(token.text) THEN <<>>
              ELSE IF StartsWith(token.text, <<"@">>)
              THEN <<Issue(lineNo, MISPLACED_ASSIGNEE, token.start)>>
              ELSE IF StartsWith(token.text, <<"#">>)
              THEN <<Issue(lineNo, MISPLACED_TAG, token.start)>>
              ELSE IF IsPriorityShorthand(token.text) /\ ~prevEndsColon /\ ~nextStartsColon
              THEN <<Issue(lineNo, MISPLACED_PRIORITY, token.start)>>
              ELSE <<>>)
             \o Misplaced(tokens, i + 1, lineNo)

\* the check for an unquoted title followed by key:value pairs, and for bare values
RECURSIVE TitleCheck(_, _, _, _, _)
TitleCheck(tokens, i, lineNo, foundTitle, inKeyValueSection) ==
    IF i > Len(tokens) THEN <<>>
    ELSE LET token == tokens[i]
             hasKVAfter == \E j \in (i + 1)..Len(tokens) : IsKeyValue(tokens[j].text)
         IN  IF IsKeyValue(token.text) THEN TitleCheck(tokens, i + 1, lineNo, foundTitle, TRUE)
             ELSE IF LintIsQuoted(token.text) THEN TitleCheck(tokens, i + 1, lineNo, TRUE, inKeyValueSection)
             ELSE IF ~foundTitle /\ ~inKeyValueSection
             THEN (IF hasKVAfter THEN <<Issue(lineNo, UNQUOTED_TITLE_WITH_KV, 0)>> ELSE <<>>)
                  \o TitleCheck(tokens, i + 1, lineNo, TRUE, inKeyValueSection)
             ELSE IF foundTitle /\ ~inKeyValueSection
             THEN (IF hasKVAfter THEN <<Issue(lineNo, VALUES_WITHOUT_KEYS, 0)>> ELSE <<>>)
                  \o TitleCheck(tokens, i + 1, lineNo, foundTitle, inKeyValueSection)
             ELSE TitleCheck(tokens, i + 1, lineNo, foundTitle, inKeyValueSection)

\* validateBulletLine(content, lineNo, lineOffset): the errors it pushes
\* the checks of the tokens after the prefix section
ContentChecks(tokens, lineNo) ==
    Misplaced(tokens, PrefixEnd(tokens, 1) + 1, lineNo)
    \o TitleCheck(tokens, PrefixEnd(tokens, 1) + 1, lineNo, FALSE, FALSE)

validateBulletLine(content, lineNo, lineOffset) ==
    validateQuotes(content, lineNo, lineOffset)
    \o ContentChecks(LintTokens(content, lineOffset), lineNo)

\* findPrecedingBulletIndex(lines, idx), 1-based, 0 when there is none
findPrecedingBulletIndex(lines, idx) ==
    LET ks == {k \in 1..(idx - 1) : StartsWith(Trim(lines[k]), <<"-">>)}
    IN  IF ks = {} THEN 0 ELSE MaxOf(ks)

\* trimmed.match(/^#{1,6}\s+/) || trimmed.match(/^-{3,}$/) || trimmed.match(/^={3,}$/)
IsMarkdownStructure(trimmed) ==
    \/ \E n \in 1..6 : /\ Len(trimmed) > n
                       /\ \A k \in 1..n : trimmed[k] = "#"
                       /\ IsWs(trimmed[n + 1])
    \/ (Len(trimmed) >= 3 /\ \A k \in 1..Len(trimmed) : trimmed[k] = "-")
    \/ (Len(trimmed) >= 3 /\ \A k \in 1..Len(trimmed) : trimmed[k] = "=")

\* the lookahead loops of the non-bullet branch: the first non-blank line after i
NextNonBlank(lines, i) ==
    LET js == {j \in (i + 1)..Len(lines) : Trim(ReplaceTabs(lines[j])) # <<>>}
    IN  IF js = {} THEN 0 ELSE MinOf(js)

\* a line after i, blank lines skipped, is indented deeper than baseIndent
FoundContent(lines, i, baseIndent) ==
    /\ NextNonBlank(lines, i) # 0
    /\ IndentOf(ReplaceTabs(lines[NextNonBlank(lines, i)])) > baseIndent

\* the heuristic for content that should have used a pipe
DeeperText(nextLine, indent) ==
    ~StartsWith(Trim(nextLine), <<"-">>) /\ IndentOf(nextLine) > indent

LooksLikeMultilineContent(lines, i, indent) ==
    /\ NextNonBlank(lines, i) # 0
    /\ DeeperText(ReplaceTabs(lines[NextNonBlank(lines, i)]), indent)

\* line.indexOf('-'), 0-based
IndexOfDash(line) == MinOf({k \in 1..Len(line) : line[k] = "-"}) - 1

\* One bullet line of lintLines: st = [errors, warnings, idSet, stack, inside, baseIndent]
\* the errors of the content of a bullet line; bulletOffset is the offset of the
\* text after the dash
BulletErrors(trimmed, afterDash, indent, i, bulletOffset) ==
    (IF indent % IndentSize # 0 THEN <<Issue(i, INVALID_INDENTATION, indent)>> ELSE <<>>)
    \o (IF afterDash = <<>> THEN <<Issue(i, BULLET_MISSING_CONTENT, Len(trimmed) - 1)>> ELSE <<>>)
    \o validateBulletLine(afterDash, i, bulletOffset + (Len(Tail(trimmed)) - Len(afterDash)))

\* the hierarchy checks; stack is the stack after the pops
StackChecked(st, indent, i, stack) ==
    [st EXCEPT !.errors = @ \o (IF stack = <<>> /\ indent > 0
                                THEN <<Issue(i, INVALID_HIERARCHY, 0)>> ELSE <<>>),
               !.warnings = @ \o (IF /\ stack # <<>>
                                     /\ indent - stack[Len(stack)].indent > IndentSize
                                     /\ indent - stack[Len(stack)].indent # IndentSize
                                  THEN <<Issue(i, LARGE_INDENT_JUMP, 0)>> ELSE <<>>),
               !.stack = Append(stack, [indent |-> indent, node |-> i])]

LintBullet(line, trimmed, indent, i, st) ==
    StackChecked([st EXCEPT !.errors = @ \o BulletErrors(trimmed, Trim(Tail(trimmed)), indent, i,
                                                        indent + IndexOfDash(line) + 1)],
                 indent, i, PopStack(st.stack, indent))

\* One non-bullet line of lintLines
\* a line that is no key: value line, under a bullet
LintText(lines, indent, i, st) ==
    IF st.inside THEN st
    ELSE IF LooksLikeMultilineContent(lines, i, indent)
    THEN [st EXCEPT !.errors = Append(@, Issue(i, MULTILINE_WITHOUT_PIPE, 0))]
    ELSE [st EXCEPT !.errors = Append(@, Issue(i, INVALID_MULTILINE_CONTENT, 0))]

\* a key: value line under a bullet; found tells that deeper content follows
LintKeyValue(indent, i, st, key, value, found) ==
    IF value = <<"|">>
    THEN [st EXCEPT !.errors = IF ~found THEN Append(@, Issue(i, MULTILINE_NO_CONTENT, 0)) ELSE @,
                    !.inside = TRUE, !.baseIndent = indent]
    ELSE IF value = <<>>
    THEN IF found
         THEN [st EXCEPT !.errors = Append(@, Issue(i, MULTILINE_WITHOUT_PIPE, 0)),
                         !.inside = TRUE, !.baseIndent = indent]
         ELSE st
    ELSE [st EXCEPT !.warnings = IF HasWs(value) /\ ~LintIsQuoted(value)
                                 THEN Append(@, Issue(i, UNQUOTED_SPACED_VALUE, 0)) ELSE @,
                    !.errors = IF key = K_id /\ value \in st.idSet
                               THEN Append(@, Issue(i, DUPLICATE_ID, 0)) ELSE @,
                    !.idSet = IF key = K_id THEN @ \cup {value} ELSE @]

\* a line under the bullet at bulletIdx; c is the position of the colon of its key
LintUnder(lines, trimmed, indent, i, st, bulletIdx, c) ==
    IF bulletIdx = 0 THEN st
    ELSE IF indent <= IndentOf(ReplaceTabs(lines[bulletIdx])) THEN st
    ELSE IF c = 0 THEN LintText(lines, indent, i, st)
    ELSE LintKeyValue(indent, i, st, SubSeq(trimmed, 1, c - 1), Trim(DropFirst(trimmed, c)),
                      FoundContent(lines, i, indent))

\* One non-bullet line of lintLines
LintOther(lines, line, trimmed, indent, i, st) ==
    IF IsMarkdownStructure(trimmed) THEN st
    ELSE LintUnder(lines, trimmed, indent, i, st,
                   findPrecedingBulletIndex(lines, i), KeyValueAt(trimmed))

\* The loop of lintLines over the lines of a file
RECURSIVE LintLoop(_, _, _)
\* one line outside a multi-line block
LintLine(lines, line, trimmed, indent, i, st) ==
    IF trimmed = <<>> THEN st
    ELSE IF StartsWith(trimmed, <<"-">>) THEN LintBullet(line, trimmed, indent, i, st)
    ELSE LintOther(lines, line, trimmed, indent, i, st)

\* a line inside a multi-line block is skipped; a line that is not indented deeper
\* than the key of the block ends the block
LintAt(lines, line, trimmed, indent, i, st) ==
    IF st.inside /\ trimmed # <<>> /\ indent > st.baseIndent THEN st
    ELSE LintLine(lines, line, trimmed, indent, i,
                  IF st.inside /\ trimmed # <<>> THEN [st EXCEPT !.inside = FALSE] ELSE st)

LintLoop(lines, i, st) ==
    IF i > Len(lines) THEN st
    ELSE LintLoop(lines, i + 1,
                  LintAt(lines, ReplaceTabs(lines[i]), Trim(ReplaceTabs(lines[i])),
                         IndentOf(ReplaceTabs(lines[i])), i, st))

\* lintLines(lines): [errors, warnings, ...]
lintLines(lines) ==
    LintLoop(lines, 1, [errors |-> <<>>, warnings |-> <<>>, idSet |-> {}, stack |-> <<>>,
                        inside |-> FALSE, baseIndent |-> 0])

-----------------------------------------------------------------------------
(* utils.js: collectTasks, getSortValue, multiKeySort                      *)

\* a < b for two strings: the comparison of JavaScript, code unit by code unit
RECURSIVE StrLess(_, _)
StrLess(a, b) ==
    IF b = <<>> THEN FALSE
    ELSE IF a = <<>> THEN TRUE
    ELSE IF Head(a) = Head(b) THEN StrLess(Tail(a), Tail(b))
    ELSE CharCode(Head(a)) < CharCode(Head(b))

\* a walk that lists the siblings of a task before its children
RECURSIVE CollectSiblingsFirst(_, _, _)
CollectSiblingsFirst(st, tasks, parentId) ==
    IF tasks = <<>> THEN st
    ELSE LET t == Head(tasks)
             h1 == [st.h EXCEPT ![t].parent = parentId]
             st1 == CollectSiblingsFirst([h |-> h1, out |-> Append(st.out, t)], Tail(tasks), parentId)
         IN  IF Len(h1[t].children) > 0
             THEN CollectSiblingsFirst(st1, h1[t].children, h1[t].id)
             ELSE st1

\* rec(tasks, parentId) of collectTasks, on the heap: st = [h, out]
RECURSIVE CollectRec(_, _, _)
CollectRec(st, tasks, parentId) ==
    IF tasks = <<>> THEN st
    ELSE LET t == Head(tasks)
             h1 == [st.h EXCEPT ![t].parent = parentId]
             st1 == [h |-> h1, out |-> Append(st.out, t)]
             st2 == IF Len(h1[t].children) > 0 THEN CollectRec(st1, h1[t].children, h1[t].id) ELSE st1
         IN  CollectRec(st2, Tail(tasks), parentId)

\* collectTasks(rootTasks): [h, out], out the nodes in pre-order
collectTasks(h, rootTasks) == CollectRec([h |-> h, out |-> <<>>], rootTasks, Null)

\* the own properties of a node, as an object: those of the literal that made it
\* (the node of INSERT has no sourceLineIndex and no originalLine), then inline,
\* id and parent
K_data == <<"d", "a", "t", "a">>
K_children == <<"c", "h", "i", "l", "d", "r", "e", "n">>
K_indent == <<"i", "n", "d", "e", "n", "t">>
K_sourceLineIndex == <<"s", "o", "u", "r", "c", "e", "L", "i", "n", "e", "I", "n", "d", "e", "x">>
K_originalLine == <<"o", "r", "i", "g", "i", "n", "a", "l", "L", "i", "n", "e">>
K_inline == <<"i", "n", "l", "i", "n", "e">>
NodeProps(node) ==
    << <<K_data, Obj(node.data)>>, <<K_children, Nodes(node.children)>>,
       <<K_indent, Num(node.indent)>> >>
    \o (IF "sourceLineIndex" \in DOMAIN node
        THEN << <<K_sourceLineIndex, Num(node.sourceLineIndex)>> >> ELSE <<>>)
    \o (IF "originalLine" \in DOMAIN node
        THEN << <<K_originalLine, Str(node.originalLine)>> >> ELSE <<>>)
    \o << <<K_inline, Str(node.inline)>>, <<K_id, node.id>>, <<K_parent, node.parent>> >>

\* the outcome of a call that throws a TypeError instead of returning a value
Thrown == [t |-> "throw", v |-> 0]

\* getSortValue(task, key).  task.data?.hasOwnProperty(key) calls what the name
\* hasOwnProperty gives on the data: a field of that name stands before the
\* method of Object.prototype, and no value of a field can be called.
K_hasOwnProperty == <<"h", "a", "s", "O", "w", "n", "P", "r", "o", "p", "e", "r", "t", "y">>
getSortValue(task, key) ==
    IF key = K_parent THEN (IF task.parent.t \in {"null", "undef"} THEN Str(<<>>) ELSE task.parent)
    ELSE IF HasKey(task.data, K_hasOwnProperty) THEN Thrown
    ELSE IF HasKey(task.data, key) THEN Get(task.data, key)
    ELSE Get(NodeProps(task), key)

\* cmp(a, b) of multiKeySort, as [threw, order]: order is -1, 0 or 1, and threw
\* tells that getSortValue threw
Order(n) == [threw |-> FALSE, order |-> n]
CmpThrew == [threw |-> TRUE, order |-> 0]

\* the comparison of the values va and vb of the first key, dir its direction
RECURSIVE SortCmp(_, _, _)
CmpValues(a, b, keySpecArray, dir, va, vb) ==
    IF va.t = "throw" \/ vb.t = "throw" THEN CmpThrew
    ELSE IF va.t = "undef" /\ vb.t = "undef" THEN SortCmp(a, b, Tail(keySpecArray))
    ELSE IF va.t = "undef" THEN Order(-1 * dir)
    ELSE IF vb.t = "undef" THEN Order(1 * dir)
    ELSE IF va.t = "num" /\ vb.t = "num"
    THEN IF DecLess(va.v, vb.v) THEN Order(-1 * dir)
         ELSE IF DecLess(vb.v, va.v) THEN Order(1 * dir)
         ELSE SortCmp(a, b, Tail(keySpecArray))
    ELSE IF StringThrows(va) \/ StringThrows(vb) THEN CmpThrew
    ELSE IF StrLess(JsString(va), JsString(vb)) THEN Order(-1 * dir)
         ELSE IF StrLess(JsString(vb), JsString(va)) THEN Order(1 * dir)
         ELSE SortCmp(a, b, Tail(keySpecArray))

SortCmp(a, b, keySpecArray) ==
    IF keySpecArray = <<>> THEN Order(0)
    ELSE CmpValues(a, b, keySpecArray,
                   IF Head(keySpecArray).dir = <<"d", "e", "s", "c">> THEN -1 ELSE 1,
                   getSortValue(a, Head(keySpecArray).key), getSortValue(b, Head(keySpecArray).key))

\* tasks.sort(cmp): Array.prototype.sort of V8, as [threw, arr].  The array is
\* cut in runs: the run the rest of the array starts with is counted, and
\* reversed when it descends, and a run shorter than the minimum run length is
\* made that long by putting the elements after it in their places by binary
\* search.  The runs are put on a stack and merged.  An array of fewer than 64
\* elements is one run.
SortThrew == [threw |-> TRUE, arr |-> <<>>]
SortDone(arr) == [threw |-> FALSE, arr |-> arr]

kMinGallopWins == 7

\* The state of a sort: the work array of node references, the array a merge
\* copies its shorter run to, the stack of pending runs, the variables of the
\* loops, and at, the place in the code: every loop of the sort is taken one
\* iteration at a time.  after is the loop a merge returns to, threw tells that
\* cmp threw.
SortState(h, tasks, keySpecArray) ==
    [h |-> h, keySpecArray |-> keySpecArray, threw |-> FALSE, at |-> "NextRun", after |-> "",
     workArray |-> tasks, tempArray |-> <<>>, pendingRuns |-> <<>>, minGallop |-> kMinGallopWins,
     low |-> 0, remaining |-> Len(tasks), minRunLength |-> 0,
     idx |-> 0, isDescending |-> FALSE, runLength |-> 0, start |-> 0, high |-> 0,
     baseA |-> 0, lengthA |-> 0, lengthB |-> 0, dest |-> 0, cursorTemp |-> 0, cursorA |-> 0,
     cursorB |-> 0, nofWinsA |-> 0, nofWinsB |-> 0, firstIteration |-> FALSE]
Threw(s) == [s EXCEPT !.threw = TRUE, !.at = "Done"]

\* sortState.Compare(x, y), x and y elements of the arrays
Cmp(s, x, y) == SortCmp(s.h[x], s.h[y], s.keySpecArray)

\* array[i], and the array with array[i] = x: an index counts from 0
Elem(array, i) == array[i + 1]
Store(array, i, x) == [array EXCEPT ![i + 1] = x]

\* Copy(source, srcPos, target, dstPos, length): the target after it
Copy(source, srcPos, target, dstPos, length) ==
    [p \in 1..Len(target) |->
        IF p > dstPos /\ p <= dstPos + length THEN source[srcPos + (p - dstPos)] ELSE target[p]]

\* ReverseRange(array, from, to)
ReverseRange(array, from, to) ==
    [p \in 1..Len(array) |-> IF p > from /\ p <= to THEN array[from + to + 1 - p] ELSE array[p]]

\* CountAndMakeRun(low, low + remaining): the first comparison tells whether the
\* run descends ...
RunFrom(s, c) ==
    IF c.threw THEN Threw(s)
    ELSE [s EXCEPT !.isDescending = c.order < 0, !.runLength = 2, !.idx = s.low + 2, !.at = "CountRun"]
CountAndMakeRun(s) ==
    IF s.remaining = 1 THEN [s EXCEPT !.isDescending = FALSE, !.runLength = 1, !.at = "MadeRun"]
    ELSE RunFrom(s, Cmp(s, Elem(s.workArray, s.low + 1), Elem(s.workArray, s.low)))

\* ... the run goes on while the next element is below the one before it (a
\* descending run) or not below it (an ascending one) ...
RunNext(s, c) ==
    IF c.threw THEN Threw(s)
    ELSE IF (c.order < 0) = s.isDescending THEN [s EXCEPT !.idx = @ + 1, !.runLength = @ + 1]
    ELSE [s EXCEPT !.at = "MadeRun"]
CountRun(s) ==
    IF s.idx >= s.low + s.remaining THEN [s EXCEPT !.at = "MadeRun"]
    ELSE RunNext(s, Cmp(s, Elem(s.workArray, s.idx), Elem(s.workArray, s.idx - 1)))

\* ... and a descending run is reversed.  A run shorter than minRunLength is
\* extended by BinaryInsertionSort(low, low + currentRunLength, low + forcedRunLength).
ForcedRunLength(s) == IF s.minRunLength < s.remaining THEN s.minRunLength ELSE s.remaining
Reversed(s) ==
    IF s.isDescending THEN ReverseRange(s.workArray, s.low, s.low + s.runLength) ELSE s.workArray
MadeRun(s) ==
    IF s.runLength < s.minRunLength
    THEN [s EXCEPT !.workArray = Reversed(s), !.runLength = ForcedRunLength(s),
                   !.start = IF s.runLength = 0 THEN s.low + 1 ELSE s.low + s.runLength,
                   !.high = s.low + ForcedRunLength(s), !.at = "BinaryInsertionSort"]
    ELSE [s EXCEPT !.workArray = Reversed(s), !.at = "PushRun"]

\* the binary search of BinaryInsertionSort for the place of pivot: [threw, left]
RECURSIVE BinarySearch(_, _, _, _)
SearchStep(s, pivot, left, right, mid, c) ==
    IF c.threw THEN [threw |-> TRUE, left |-> 0]
    ELSE IF c.order < 0 THEN BinarySearch(s, pivot, left, mid)
    ELSE BinarySearch(s, pivot, mid + 1, right)
BinarySearch(s, pivot, left, right) ==
    IF left >= right THEN [threw |-> FALSE, left |-> left]
    ELSE SearchStep(s, pivot, left, right, left + (right - left) \div 2,
                    Cmp(s, pivot, Elem(s.workArray, left + (right - left) \div 2)))

\* the array with the element at start moved down to left
Moved(array, start, left) ==
    SubSeq(array, 1, left) \o <<array[start + 1]>> \o SubSeq(array, left + 1, start)
        \o SubSeq(array, start + 2, Len(array))

\* the loop of BinaryInsertionSort: the elements from low to start are in their
\* places, and the element at start is put at the place found for it
InsertAt(s, found) ==
    IF found.threw THEN Threw(s)
    ELSE [s EXCEPT !.workArray = Moved(s.workArray, s.start, found.left), !.start = @ + 1]
BinaryInsertionSort(s) ==
    IF s.start >= s.high THEN [s EXCEPT !.at = "PushRun"]
    ELSE InsertAt(s, BinarySearch(s, Elem(s.workArray, s.start), s.low, s.start))

\* PushRun(low, currentRunLength), and MergeCollapse is next
PushRun(s) ==
    [s EXCEPT !.pendingRuns = Append(@, [base |-> s.low, length |-> s.runLength]),
              !.low = @ + s.runLength, !.remaining = @ - s.runLength, !.at = "MergeCollapse"]

\* GallopLeft and GallopRight: [threw, offset].  GallopRight compares the key
\* with an element (keyFirst), GallopLeft an element with the key.
KeyCmp(s, key, element, keyFirst) ==
    Cmp(s, IF keyFirst THEN key ELSE element, IF keyFirst THEN element ELSE key)

\* the galloping loop, away from array[from] by step: it goes on while the order
\* is negative as it was at the hint (neg), or is not as it was not; [threw, lastOfs, offset]
RECURSIVE GallopLoop(_, _, _, _, _, _, _, _, _, _)
GallopNext(s, array, key, from, step, keyFirst, neg, lastOfs, offset, maxOfs, c) ==
    IF c.threw THEN [threw |-> TRUE, lastOfs |-> 0, offset |-> 0]
    ELSE IF (c.order < 0) = neg
    THEN GallopLoop(s, array, key, from, step, keyFirst, neg, offset, 2 * offset + 1, maxOfs)
    ELSE [threw |-> FALSE, lastOfs |-> lastOfs, offset |-> offset]
GallopLoop(s, array, key, from, step, keyFirst, neg, lastOfs, offset, maxOfs) ==
    IF offset >= maxOfs THEN [threw |-> FALSE, lastOfs |-> lastOfs, offset |-> maxOfs]
    ELSE GallopNext(s, array, key, from, step, keyFirst, neg, lastOfs, offset, maxOfs,
                    KeyCmp(s, key, Elem(array, from + step * offset), keyFirst))

\* the binary search between lastOfs and offset that ends a gallop
RECURSIVE GallopSearch(_, _, _, _, _, _, _)
GallopSearchStep(s, array, key, base, keyFirst, lastOfs, offset, m, c) ==
    IF c.threw THEN [threw |-> TRUE, offset |-> 0]
    ELSE IF (c.order < 0) = keyFirst THEN GallopSearch(s, array, key, base, keyFirst, lastOfs, m)
    ELSE GallopSearch(s, array, key, base, keyFirst, m + 1, offset)
GallopSearch(s, array, key, base, keyFirst, lastOfs, offset) ==
    IF lastOfs >= offset THEN [threw |-> FALSE, offset |-> offset]
    ELSE GallopSearchStep(s, array, key, base, keyFirst, lastOfs, offset,
                          lastOfs + (offset - lastOfs) \div 2,
                          KeyCmp(s, key, Elem(array, base + lastOfs + (offset - lastOfs) \div 2), keyFirst))

\* the offsets of the gallop, translated back to offsets from base
Galloped(s, array, key, base, hint, keyFirst, toRight, g) ==
    IF g.threw THEN [threw |-> TRUE, offset |-> 0]
    ELSE IF toRight
    THEN GallopSearch(s, array, key, base, keyFirst, g.lastOfs + hint + 1, g.offset + hint)
    ELSE GallopSearch(s, array, key, base, keyFirst, hint - g.offset + 1, hint - g.lastOfs)
GallopFrom(s, array, key, base, length, hint, keyFirst, toRight, c) ==
    IF c.threw THEN [threw |-> TRUE, offset |-> 0]
    ELSE Galloped(s, array, key, base, hint, keyFirst, toRight,
                  GallopLoop(s, array, key, base + hint, IF toRight THEN 1 ELSE -1, keyFirst,
                             c.order < 0, 0, 1, IF toRight THEN length - hint ELSE hint + 1))
Gallop(s, array, key, base, length, hint, keyFirst, c) ==
    GallopFrom(s, array, key, base, length, hint, keyFirst, (c.order < 0) # keyFirst, c)
GallopLeft(s, array, key, base, length, hint) ==
    Gallop(s, array, key, base, length, hint, FALSE, KeyCmp(s, key, Elem(array, base + hint), FALSE))
GallopRight(s, array, key, base, length, hint) ==
    Gallop(s, array, key, base, length, hint, TRUE, KeyCmp(s, key, Elem(array, base + hint), TRUE))

\* MergeLow(baseA, lengthA, baseB, lengthB): run A is copied to the temporary
\* array and the runs are merged from the left.
\* Succeed and CopyB, the ends of MergeLow
LowSucceed(s) ==
    [s EXCEPT !.workArray = Copy(s.tempArray, s.cursorTemp, s.workArray, s.dest, s.lengthA),
              !.at = s.after]
LowCopyB(s) ==
    [s EXCEPT !.workArray = Store(Copy(s.workArray, s.cursorB, s.workArray, s.dest, s.lengthB),
                                  s.dest + s.lengthB, Elem(s.tempArray, s.cursorTemp)),
              !.at = s.after]
\* workArray[dest++] = workArray[cursorB++] and workArray[dest++] = tempArray[cursorTemp++]
LowTakeB(s) ==
    [s EXCEPT !.workArray = Store(s.workArray, s.dest, Elem(s.workArray, s.cursorB)),
              !.dest = @ + 1, !.cursorB = @ + 1, !.lengthB = @ - 1]
LowTakeA(s) ==
    [s EXCEPT !.workArray = Store(s.workArray, s.dest, Elem(s.tempArray, s.cursorTemp)),
              !.dest = @ + 1, !.cursorTemp = @ + 1, !.lengthA = @ - 1]
\* the straightforward loop, until one run wins minGallop times in a row
LowAfterB(s) ==
    IF s.lengthB = 0 THEN LowSucceed(s)
    ELSE IF s.nofWinsB >= s.minGallop
    THEN [s EXCEPT !.minGallop = @ + 1, !.firstIteration = TRUE, !.at = "LowGallop"]
    ELSE s
LowAfterA(s) ==
    IF s.lengthA = 1 THEN LowCopyB(s)
    ELSE IF s.nofWinsA >= s.minGallop
    THEN [s EXCEPT !.minGallop = @ + 1, !.firstIteration = TRUE, !.at = "LowGallop"]
    ELSE s
LowTaken(s, c) ==
    IF c.threw THEN Threw(s)
    ELSE IF c.order < 0 THEN LowAfterB([LowTakeB(s) EXCEPT !.nofWinsB = @ + 1, !.nofWinsA = 0])
    ELSE LowAfterA([LowTakeA(s) EXCEPT !.nofWinsA = @ + 1, !.nofWinsB = 0])
LowOne(s) == LowTaken(s, Cmp(s, Elem(s.workArray, s.cursorB), Elem(s.tempArray, s.cursorTemp)))
\* the galloping loop: the elements of A that go before the next of B, that
\* element of B, the elements of B that go before the next of A, that element of A
LowATaken(s) == IF s.lengthA = 1 THEN LowCopyB(s) ELSE [s EXCEPT !.firstIteration = FALSE]
LowBCopied(s) ==
    IF s.nofWinsB > 0 /\ s.lengthB = 0 THEN LowSucceed(s) ELSE LowATaken(LowTakeA(s))
LowGallopB(s, k) ==
    IF k.threw THEN Threw(s)
    ELSE LowBCopied([s EXCEPT !.workArray = Copy(s.workArray, s.cursorB, s.workArray, s.dest, k.offset),
                              !.dest = @ + k.offset, !.cursorB = @ + k.offset,
                              !.lengthB = @ - k.offset, !.nofWinsB = k.offset])
LowBTaken(s) ==
    IF s.lengthB = 0 THEN LowSucceed(s)
    ELSE LowGallopB(s, GallopLeft(s, s.workArray, Elem(s.tempArray, s.cursorTemp), s.cursorB, s.lengthB, 0))
LowACopied(s) ==
    IF s.nofWinsA > 0 /\ s.lengthA = 1 THEN LowCopyB(s)
    ELSE IF s.nofWinsA > 0 /\ s.lengthA = 0 THEN LowSucceed(s)
    ELSE LowBTaken(LowTakeB(s))
LowGallopA(s, k) ==
    IF k.threw THEN Threw(s)
    ELSE LowACopied([s EXCEPT !.workArray = Copy(s.tempArray, s.cursorTemp, s.workArray, s.dest, k.offset),
                              !.dest = @ + k.offset, !.cursorTemp = @ + k.offset,
                              !.lengthA = @ - k.offset, !.nofWinsA = k.offset])
LowGallop(s) ==
    IF s.nofWinsA >= kMinGallopWins \/ s.nofWinsB >= kMinGallopWins \/ s.firstIteration
    THEN LowGallopA([s EXCEPT !.minGallop = IF @ - 1 > 1 THEN @ - 1 ELSE 1],
                    GallopRight(s, s.tempArray, Elem(s.workArray, s.cursorB), s.cursorTemp, s.lengthA, 0))
    ELSE [s EXCEPT !.minGallop = @ + 1, !.nofWinsA = 0, !.nofWinsB = 0, !.at = "LowOne"]
LowStart(s) ==
    IF s.lengthB = 0 THEN LowSucceed(s)
    ELSE IF s.lengthA = 1 THEN LowCopyB(s)
    ELSE [s EXCEPT !.nofWinsA = 0, !.nofWinsB = 0, !.at = "LowOne"]
MergeLow(s, baseA, lengthA, baseB, lengthB) ==
    LowStart(LowTakeB([s EXCEPT !.tempArray = SubSeq(s.workArray, baseA + 1, baseA + lengthA),
                                !.dest = baseA, !.cursorTemp = 0, !.cursorB = baseB,
                                !.lengthA = lengthA, !.lengthB = lengthB]))

\* MergeHigh(baseA, lengthA, baseB, lengthB): run B is copied to the temporary
\* array and the runs are merged from the right.
\* Succeed and CopyA, the ends of MergeHigh
HighSucceed(s) ==
    [s EXCEPT !.workArray = Copy(s.tempArray, 0, s.workArray, s.dest - (s.lengthB - 1), s.lengthB),
              !.at = s.after]
HighCopyA(s) ==
    [s EXCEPT !.workArray = Store(Copy(s.workArray, s.cursorA - s.lengthA + 1, s.workArray,
                                       s.dest - s.lengthA + 1, s.lengthA),
                                  s.dest - s.lengthA, Elem(s.tempArray, s.cursorTemp)),
              !.at = s.after]
\* workArray[dest--] = workArray[cursorA--] and workArray[dest--] = tempArray[cursorTemp--]
HighTakeA(s) ==
    [s EXCEPT !.workArray = Store(s.workArray, s.dest, Elem(s.workArray, s.cursorA)),
              !.dest = @ - 1, !.cursorA = @ - 1, !.lengthA = @ - 1]
HighTakeB(s) ==
    [s EXCEPT !.workArray = Store(s.workArray, s.dest, Elem(s.tempArray, s.cursorTemp)),
              !.dest = @ - 1, !.cursorTemp = @ - 1, !.lengthB = @ - 1]
HighAfterA(s) ==
    IF s.lengthA = 0 THEN HighSucceed(s)
    ELSE IF s.nofWinsA >= s.minGallop
    THEN [s EXCEPT !.minGallop = @ + 1, !.firstIteration = TRUE, !.at = "HighGallop"]
    ELSE s
HighAfterB(s) ==
    IF s.lengthB = 1 THEN HighCopyA(s)
    ELSE IF s.nofWinsB >= s.minGallop
    THEN [s EXCEPT !.minGallop = @ + 1, !.firstIteration = TRUE, !.at = "HighGallop"]
    ELSE s
HighTaken(s, c) ==
    IF c.threw THEN Threw(s)
    ELSE IF c.order < 0 THEN HighAfterA([HighTakeA(s) EXCEPT !.nofWinsA = @ + 1, !.nofWinsB = 0])
    ELSE HighAfterB([HighTakeB(s) EXCEPT !.nofWinsB = @ + 1, !.nofWinsA = 0])
HighOne(s) == HighTaken(s, Cmp(s, Elem(s.tempArray, s.cursorTemp), Elem(s.workArray, s.cursorA)))
HighATaken(s) == IF s.lengthA = 0 THEN HighSucceed(s) ELSE [s EXCEPT !.firstIteration = FALSE]
HighBCopied(s) ==
    IF s.nofWinsB > 0 /\ s.lengthB = 1 THEN HighCopyA(s)
    ELSE IF s.nofWinsB > 0 /\ s.lengthB = 0 THEN HighSucceed(s)
    ELSE HighATaken(HighTakeA(s))
\* nofWinsB = lengthB - k elements of the temporary array go to the work array
HighGallopB(s, k) ==
    IF k.threw THEN Threw(s)
    ELSE HighBCopied([s EXCEPT !.workArray = Copy(s.tempArray, s.cursorTemp - (s.lengthB - k.offset) + 1,
                                                  s.workArray, s.dest - (s.lengthB - k.offset) + 1,
                                                  s.lengthB - k.offset),
                               !.dest = @ - (s.lengthB - k.offset),
                               !.cursorTemp = @ - (s.lengthB - k.offset),
                               !.lengthB = k.offset, !.nofWinsB = s.lengthB - k.offset])
HighBTaken(s) ==
    IF s.lengthB = 1 THEN HighCopyA(s)
    ELSE HighGallopB(s, GallopLeft(s, s.tempArray, Elem(s.workArray, s.cursorA), 0, s.lengthB, s.lengthB - 1))
HighACopied(s) ==
    IF s.nofWinsA > 0 /\ s.lengthA = 0 THEN HighSucceed(s) ELSE HighBTaken(HighTakeB(s))
\* nofWinsA = lengthA - k elements of run A move up
HighGallopA(s, k) ==
    IF k.threw THEN Threw(s)
    ELSE HighACopied([s EXCEPT !.workArray = Copy(s.workArray, s.cursorA - (s.lengthA - k.offset) + 1,
                                                  s.workArray, s.dest - (s.lengthA - k.offset) + 1,
                                                  s.lengthA - k.offset),
                               !.dest = @ - (s.lengthA - k.offset),
                               !.cursorA = @ - (s.lengthA - k.offset),
                               !.lengthA = k.offset, !.nofWinsA = s.lengthA - k.offset])
HighGallop(s) ==
    IF s.nofWinsA >= kMinGallopWins \/ s.nofWinsB >= kMinGallopWins \/ s.firstIteration
    THEN HighGallopA([s EXCEPT !.minGallop = IF @ - 1 > 1 THEN @ - 1 ELSE 1],
                     GallopRight(s, s.workArray, Elem(s.tempArray, s.cursorTemp), s.baseA, s.lengthA,
                                 s.lengthA - 1))
    ELSE [s EXCEPT !.minGallop = @ + 1, !.nofWinsA = 0, !.nofWinsB = 0, !.at = "HighOne"]
HighStart(s) ==
    IF s.lengthA = 0 THEN HighSucceed(s)
    ELSE IF s.lengthB = 1 THEN HighCopyA(s)
    ELSE [s EXCEPT !.nofWinsA = 0, !.nofWinsB = 0, !.at = "HighOne"]
MergeHigh(s, baseA, lengthA, baseB, lengthB) ==
    HighStart(HighTakeA([s EXCEPT !.tempArray = SubSeq(s.workArray, baseB + 1, baseB + lengthB),
                                  !.dest = baseB + lengthB - 1, !.cursorTemp = lengthB - 1,
                                  !.cursorA = baseA + lengthA - 1, !.baseA = baseA,
                                  !.lengthA = lengthA, !.lengthB = lengthB]))

\* MergeAt(i): the runs i and i + 1 of the stack become one run.  The elements
\* of A that go before B, and those of B that go after A, stay where they are.
MergeTrimB(s, baseA, lengthA, baseB, k) ==
    IF k.threw THEN Threw(s)
    ELSE IF k.offset = 0 THEN s
    ELSE IF lengthA <= k.offset THEN MergeLow(s, baseA, lengthA, baseB, k.offset)
    ELSE MergeHigh(s, baseA, lengthA, baseB, k.offset)
MergeTrimA(s, baseA, lengthA, baseB, lengthB, k) ==
    IF k.threw THEN Threw(s)
    ELSE IF lengthA - k.offset = 0 THEN s
    ELSE MergeTrimB(s, baseA + k.offset, lengthA - k.offset, baseB,
                    GallopLeft(s, s.workArray, Elem(s.workArray, baseA + lengthA - 1), baseB, lengthB,
                               lengthB - 1))
MergeRuns(s, baseA, lengthA, baseB, lengthB) ==
    MergeTrimA(s, baseA, lengthA, baseB, lengthB,
               GallopRight(s, s.workArray, Elem(s.workArray, baseB), baseA, lengthA, 0))
MergeAt(s, i) ==
    MergeRuns([s EXCEPT !.pendingRuns =
                   SubSeq(@, 1, i)
                       \o <<[base |-> @[i + 1].base, length |-> @[i + 1].length + @[i + 2].length]>>
                       \o SubSeq(@, i + 3, Len(@))],
              s.pendingRuns[i + 1].base, s.pendingRuns[i + 1].length,
              s.pendingRuns[i + 2].base, s.pendingRuns[i + 2].length)

\* GetPendingRunLength(pendingRuns, n) and RunInvariantEstablished(pendingRuns, n)
RunLength(s, n) == s.pendingRuns[n + 1].length
RunInvariantEstablished(s, n) ==
    n < 2 \/ RunLength(s, n - 2) > RunLength(s, n - 1) + RunLength(s, n)

\* the run MergeCollapse merges next, n being the last run but one; -1 when the
\* stack is as it has to be
CollapseAt(s, n) ==
    IF ~RunInvariantEstablished(s, n + 1) \/ ~RunInvariantEstablished(s, n)
    THEN (IF RunLength(s, n - 1) < RunLength(s, n + 1) THEN n - 1 ELSE n)
    ELSE IF RunLength(s, n) <= RunLength(s, n + 1) THEN n
    ELSE -1
\* MergeForceCollapse merges the last two runs, or the two before the last
ForceAt(s, n) == IF n > 0 /\ RunLength(s, n - 1) < RunLength(s, n + 1) THEN n - 1 ELSE n

\* one turn of the loop of MergeCollapse, after a run is pushed, and of
\* MergeForceCollapse, when there is no run left to push
MergeNext(s, i) == IF i < 0 THEN [s EXCEPT !.at = "NextRun"] ELSE MergeAt([s EXCEPT !.after = s.at], i)
MergeCollapse(s) ==
    IF Len(s.pendingRuns) <= 1 THEN [s EXCEPT !.at = "NextRun"]
    ELSE MergeNext(s, CollapseAt(s, Len(s.pendingRuns) - 2))
MergeForceCollapse(s) ==
    IF Len(s.pendingRuns) <= 1 THEN [s EXCEPT !.at = "Done"]
    ELSE MergeNext(s, ForceAt(s, Len(s.pendingRuns) - 2))

\* ComputeMinRunLength(n): n itself below 64, else a length between 32 and 64
RECURSIVE MinRunLoop(_, _)
MinRunLoop(n, r) == IF n >= 64 THEN MinRunLoop(n \div 2, IF n % 2 = 1 THEN 1 ELSE r) ELSE n + r
ComputeMinRunLength(n) == MinRunLoop(n, 0)

\* the loop of ArrayTimSortImpl over the runs
NextRun(s) ==
    IF s.remaining = 0 THEN [s EXCEPT !.at = "MergeForceCollapse"] ELSE CountAndMakeRun(s)

\* one iteration of the loop the sort is in
SortStep(s) ==
    CASE s.at = "NextRun" -> NextRun(s)
      [] s.at = "CountRun" -> CountRun(s)
      [] s.at = "MadeRun" -> MadeRun(s)
      [] s.at = "BinaryInsertionSort" -> BinaryInsertionSort(s)
      [] s.at = "PushRun" -> PushRun(s)
      [] s.at = "MergeCollapse" -> MergeCollapse(s)
      [] s.at = "MergeForceCollapse" -> MergeForceCollapse(s)
      [] s.at = "LowOne" -> LowOne(s)
      [] s.at = "LowGallop" -> LowGallop(s)
      [] s.at = "HighOne" -> HighOne(s)
      [] s.at = "HighGallop" -> HighGallop(s)
      [] OTHER -> s

\* n iterations, or as many as there are until the sort is done
RECURSIVE SortSteps(_, _)
SortSteps(s, n) ==
    IF s.at = "Done" THEN s
    ELSE IF n = 1 THEN SortStep(s)
    ELSE SortSteps(SortSteps(s, n \div 2), n - n \div 2)

\* the iterations until the sort is done, n of them and then twice as many
RECURSIVE SortUntilDone(_, _)
SortUntilDone(s, n) == IF s.at = "Done" THEN s ELSE SortUntilDone(SortSteps(s, n), 2 * n)

\* ArrayTimSortImpl
ArrayTimSortImpl(s) ==
    IF Len(s.workArray) < 2 THEN s
    ELSE SortUntilDone([s EXCEPT !.minRunLength = ComputeMinRunLength(Len(s.workArray))],
                       Len(s.workArray))

\* multiKeySort(tasks, keySpecArray): the array of node references, sorted
SortResult(s) == IF s.threw THEN SortThrew ELSE SortDone(s.workArray)
multiKeySort(h, tasks, keySpecArray) == SortResult(ArrayTimSortImpl(SortState(h, tasks, keySpecArray)))

-----------------------------------------------------------------------------
(* cli.js: processEscapeSequences, the validators, parseQuery              *)

\* value.replace(/\\c/g, r): every backslash followed by c becomes r
RECURSIVE ReplaceEscape(_, _, _)
ReplaceEscape(s, c, r) ==
    IF ~HasChar(s, "\\") \/ Len(s) < 2 THEN s
    ELSE IF s[1] = "\\" /\ s[2] = c THEN <<r>> \o ReplaceEscape(DropFirst(s, 2), c, r)
    ELSE <<s[1]>> \o ReplaceEscape(Tail(s), c, r)

processEscapeSequences(value) ==
    ReplaceEscape(ReplaceEscape(ReplaceEscape(ReplaceEscape(value, "n", "\n"), "r", "\r"), "t", "\t"),
                  "\\", "\\")

\* a validation that accepts any non-empty name
validateNonEmpty(tag) == tag # <<>>

\* /^[a-zA-Z0-9_-]+$/ and not empty
validateTagName(tag) == tag # <<>> /\ \A i \in 1..Len(tag) : IsNameChar(tag[i])
validateStakeholderName(stakeholder) ==
    stakeholder # <<>> /\ \A i \in 1..Len(stakeholder) : IsNameChar(stakeholder[i])

\* value.split(',').map(s => s.trim()).filter(s => s.length > 0)
TrimAll(parts) == [i \in 1..Len(parts) |-> Trim(parts[i])]
NonEmpty(items) == KeepIdx(items, {i \in 1..Len(items) : items[i] # <<>>}, 1)
SplitItems(value) == NonEmpty(TrimAll(SplitOn(value, ",")))


\* the conversion of an assigned value in UPDATE and INSERT
NumberOr(n, other) == IF n.nan THEN other ELSE NumOf(n.n)
ConvertValue(value) ==
    IF value = S_true THEN Bool(TRUE)
    ELSE IF value = S_false THEN Bool(FALSE)
    ELSE IF value = <<>> THEN Str(value)
    ELSE NumberOr(NumberOfString(value), Str(value))

\* the keywords of the query language
W_SELECT == <<"S", "E", "L", "E", "C", "T">>
W_UPDATE == <<"U", "P", "D", "A", "T", "E">>
W_DELETE == <<"D", "E", "L", "E", "T", "E">>
W_INSERT == <<"I", "N", "S", "E", "R", "T">>
W_FROM == <<"F", "R", "O", "M">>
W_WHERE == <<"W", "H", "E", "R", "E">>
W_ORDER == <<"O", "R", "D", "E", "R">>
W_BY == <<"B", "Y">>
W_LIMIT == <<"L", "I", "M", "I", "T">>
W_INTO == <<"I", "N", "T", "O">>
W_SET == <<"S", "E", "T">>
W_ASC == <<"A", "S", "C">>
W_DESC == <<"D", "E", "S", "C">>
W_IS == <<"I", "S">>
W_NOT == <<"N", "O", "T">>
W_NULL == <<"N", "U", "L", "L">>
W_CONTAINS == <<"C", "O", "N", "T", "A", "I", "N", "S">>

\* The scan of a quoted token, from the position after the opening quote: [str, i]
RECURSIVE QuotedScan(_, _, _, _)
QuotedScan(query, i, quote, str) ==
    IF i > Len(query) THEN [str |-> str, i |-> i]
    ELSE IF query[i] = "\\" /\ i + 1 <= Len(query)
    THEN LET nextChar == query[i + 1]
         IN  IF nextChar = quote \/ nextChar = "\\"
             THEN QuotedScan(query, i + 2, quote, Append(str, nextChar))
             ELSE QuotedScan(query, i + 1, quote, Append(str, query[i]))
    ELSE IF query[i] = quote
    THEN IF i + 1 <= Len(query) /\ query[i + 1] = quote
         THEN QuotedScan(query, i + 2, quote, Append(str, quote))
         ELSE [str |-> str, i |-> i + 1]
    ELSE QuotedScan(query, i + 1, quote, Append(str, query[i]))

\* the end of a bare word: the first position that holds white space or a comma
RECURSIVE WordEnd(_, _)
WordEnd(query, i) == IF i <= Len(query) /\ ~IsWs(query[i]) /\ query[i] # "," THEN WordEnd(query, i + 1) ELSE i

\* The tokenizer of parseQuery
RECURSIVE QueryTokens(_, _, _)
QueryTokens(query, i, tokens) ==
    IF i > Len(query) THEN tokens
    ELSE IF query[i] \in {"\"", "'"}
    THEN LET r == QuotedScan(query, i + 1, query[i], <<>>)
         IN  QueryTokens(query, r.i, Append(tokens, r.str))
    ELSE IF IsWs(query[i]) THEN QueryTokens(query, i + 1, tokens)
    ELSE IF query[i] = "," THEN QueryTokens(query, i + 1, Append(tokens, <<",">>))
    ELSE LET e == WordEnd(query, i)
         IN  QueryTokens(query, e, Append(tokens, SubSeq(query, i, e - 1)))

\* consume(): the token at i as a value, undefined past the end
Tok(tokens, i) == IF i <= Len(tokens) THEN Str(tokens[i]) ELSE Undef
\* peek() is truthy
PeekTruthy(tokens, i) == i <= Len(tokens) /\ tokens[i] # <<>>
\* peek() && peek().toUpperCase() === word
PeekIs(tokens, i, word) == PeekTruthy(tokens, i) /\ toUpperCase(tokens[i]) = word
\* if (peek() === ',') consume()
SkipComma(tokens, i) == IF i <= Len(tokens) /\ tokens[i] = <<",">> THEN i + 1 ELSE i

\* the position of the first token from i on that is falsy or, in upper case, one of stops
StopAt(tokens, i, stops) ==
    LET js == {j \in i..Len(tokens) : tokens[j] = <<>> \/ toUpperCase(tokens[j]) \in stops}
    IN  IF js = {} THEN Len(tokens) + 1 ELSE MinOf(js)

\* the field list of SELECT: [i, fields]
RECURSIVE FieldLoop(_, _, _)
FieldLoop(tokens, i, fields) ==
    IF PeekTruthy(tokens, i) /\ toUpperCase(tokens[i]) # W_FROM
    THEN FieldLoop(tokens, SkipComma(tokens, i + 1), Append(fields, tokens[i]))
    ELSE [i |-> i, fields |-> fields]

\* the key list of ORDER BY: [i, orderBy]
RECURSIVE OrderLoop(_, _, _)
OrderKey(tokens, i, orderBy, hasDir) ==
    OrderLoop(tokens, SkipComma(tokens, IF hasDir THEN i + 2 ELSE i + 1),
              Append(orderBy, [key |-> tokens[i],
                               dir |-> IF hasDir THEN toLowerCase(tokens[i + 1])
                                       ELSE <<"a", "s", "c">>]))

OrderLoop(tokens, i, orderBy) ==
    IF PeekTruthy(tokens, i) /\ toUpperCase(tokens[i]) \notin {W_LIMIT, W_INTO}
    THEN OrderKey(tokens, i, orderBy, PeekIs(tokens, i + 1, W_ASC) \/ PeekIs(tokens, i + 1, W_DESC))
    ELSE [i |-> i, orderBy |-> orderBy]

\* the assignment list of UPDATE (stops at WHERE) and INSERT: [i, set, err]
RECURSIVE SetLoop(_, _, _, _)
SetLoop(tokens, i, set, stops) ==
    IF PeekTruthy(tokens, i) /\ toUpperCase(tokens[i]) \notin stops
    THEN IF Tok(tokens, i + 1) # Str(<<"=">>) THEN [i |-> i, set |-> set, err |-> TRUE]
         ELSE SetLoop(tokens, SkipComma(tokens, i + 3),
                      Append(set, [key |-> tokens[i], value |-> Tok(tokens, i + 2)]), stops)
    ELSE [i |-> i, set |-> set, err |-> FALSE]

\* parseInt(s), as [nan, n]: leading white space, an optional sign, 0x or 0X for
\* the base 16, then the digits of the base as far as they go; NaN when there
\* is none
\* the digits of s from b up to e, in the base; neg tells that a minus sign
\* precedes them
IntAt(s, b, e, neg, base) ==
    IF e = b THEN NaN ELSE Finite(Dec(neg, RadixDigits(SubSeq(s, b, e - 1), base), 0))

\* the digits of s from b on, b the position after the sign
RadixAt(s, b, neg) ==
    IF b + 1 <= Len(s) /\ s[b] = "0" /\ s[b + 1] \in {"x", "X"}
    THEN IntAt(s, b + 2, RunEnd(s, b + 2, HexDigits), neg, 16)
    ELSE IntAt(s, b, RunEnd(s, b, Digits), neg, 10)

\* s from a on, a the position after the leading white space
IntFrom(s, a) ==
    RadixAt(s, IF a <= Len(s) /\ s[a] \in {"-", "+"} THEN a + 1 ELSE a, a <= Len(s) /\ s[a] = "-")

ParseInt(val) ==
    IF val.t # "str" THEN NaN ELSE IntFrom(val.v, RunEnd(val.v, 1, {" ", "\t", "\n", "\r"}))

\* the parsed query; err is set where parseQuery throws
QueryRecord(command) ==
    [err |-> FALSE, command |-> command, file |-> Undef, fields |-> <<>>,
     hasWhere |-> FALSE, where |-> <<>>, hasOrderBy |-> FALSE, orderBy |-> <<>>,
     hasLimit |-> FALSE, limit |-> Zero, into |-> Undef, set |-> <<>>]

QueryError == [QueryRecord(<<>>) EXCEPT !.err = TRUE]

\* INTO, at the token i
SelectTarget(q, tokens, i) ==
    [q EXCEPT !.into = IF PeekIs(tokens, i, W_INTO) THEN Tok(tokens, i + 1) ELSE Undef]

\* LIMIT, at the token i; limit is what parseInt makes of the token after it
SelectLimit(q, tokens, i, limit) ==
    IF ~PeekIs(tokens, i, W_LIMIT) THEN SelectTarget(q, tokens, i)
    ELSE IF limit.nan THEN QueryError
    ELSE SelectTarget([q EXCEPT !.hasLimit = TRUE, !.limit = limit.n], tokens, i + 2)

\* the clauses after the keys o of ORDER BY
SelectOrdered(q, tokens, o) ==
    SelectLimit([q EXCEPT !.orderBy = o.orderBy], tokens, o.i, ParseInt(Tok(tokens, o.i + 1)))

\* ORDER BY, at the token i
SelectOrder(q, tokens, i) ==
    IF ~PeekIs(tokens, i, W_ORDER) THEN SelectOrdered(q, tokens, [i |-> i, orderBy |-> <<>>])
    ELSE IF ~PeekIs(tokens, i + 1, W_BY) THEN QueryError
    ELSE SelectOrdered([q EXCEPT !.hasOrderBy = TRUE], tokens, OrderLoop(tokens, i + 2, <<>>))

\* WHERE, at the token i, its condition ending before the token wEnd
SelectWhere(q, tokens, i, hasWhere, wEnd) ==
    SelectOrder(IF hasWhere
                THEN [q EXCEPT !.hasWhere = TRUE, !.where = SubSeq(tokens, i + 1, wEnd - 1)]
                ELSE q,
                tokens, IF hasWhere THEN wEnd ELSE i)

\* FROM and the file, after the field list f
SelectFrom(tokens, f) ==
    IF ~PeekIs(tokens, f.i, W_FROM) THEN QueryError
    ELSE SelectWhere([QueryRecord(W_SELECT) EXCEPT !.fields = f.fields, !.file = Tok(tokens, f.i + 1)],
                     tokens, f.i + 2, PeekIs(tokens, f.i + 2, W_WHERE),
                     StopAt(tokens, f.i + 3, {W_ORDER, W_INTO}))

ParseSelect(tokens) ==
    SelectFrom(tokens, IF Tok(tokens, 2) = Str(<<"*">>) THEN [i |-> 3, fields |-> << <<"*">> >>]
                       ELSE FieldLoop(tokens, 2, <<>>))

\* the WHERE clause that runs to the end of the query: while (peek()) push(consume())
WhereToEnd(q, tokens, i) ==
    IF PeekIs(tokens, i, W_WHERE)
    THEN [q EXCEPT !.hasWhere = TRUE, !.where = SubSeq(tokens, i + 1, StopAt(tokens, i + 1, {}) - 1)]
    ELSE q

\* the clauses after the assignments s of UPDATE
UpdateSet(tokens, s) ==
    IF s.err THEN QueryError
    ELSE WhereToEnd([QueryRecord(W_UPDATE) EXCEPT !.file = Tok(tokens, 2), !.set = s.set], tokens, s.i)

ParseUpdate(tokens) ==
    IF ~PeekIs(tokens, 3, W_SET) THEN QueryError
    ELSE UpdateSet(tokens, SetLoop(tokens, 4, <<>>, {W_WHERE}))

ParseDelete(tokens) ==
    IF ~PeekIs(tokens, 2, W_FROM) THEN QueryError
    ELSE WhereToEnd([QueryRecord(W_DELETE) EXCEPT !.file = Tok(tokens, 3)], tokens, 4)

\* the query of the assignments s of INSERT
InsertOf(tokens, s) ==
    IF s.err THEN QueryError
    ELSE [QueryRecord(W_INSERT) EXCEPT !.file = Tok(tokens, 3), !.set = s.set]

ParseInsert(tokens) ==
    IF ~PeekIs(tokens, 2, W_INTO) THEN QueryError
    ELSE IF ~PeekIs(tokens, 4, W_SET) THEN QueryError
    ELSE InsertOf(tokens, SetLoop(tokens, 5, <<>>, {}))

ParseCommand(tokens, command) ==
    IF command = W_SELECT THEN ParseSelect(tokens)
    ELSE IF command = W_UPDATE THEN ParseUpdate(tokens)
    ELSE IF command = W_DELETE THEN ParseDelete(tokens)
    ELSE IF command = W_INSERT THEN ParseInsert(tokens)
    ELSE QueryError

ParseStatement(tokens) ==
    IF tokens = <<>> THEN QueryError ELSE ParseCommand(tokens, toUpperCase(tokens[1]))

parseQuery(query) == ParseStatement(QueryTokens(query, 1, <<>>))

-----------------------------------------------------------------------------
(* cli.js: evaluateWhere                                                   *)

\* The task evaluateWhere is given, as the object of its own properties.  UPDATE
\* and DELETE pass node objects ...
TaskOfNode(node) == NodeProps(node)
\* ... and SELECT passes the flattened rows
TaskOfRow(row) == row

\* the methods a string has from String.prototype and a number from
\* Number.prototype, beside those every object has
StringMethods ==
    {<<"a", "n", "c", "h", "o", "r">>,
     <<"a", "t">>,
     <<"b", "i", "g">>,
     <<"b", "l", "i", "n", "k">>,
     <<"b", "o", "l", "d">>,
     <<"c", "h", "a", "r", "A", "t">>,
     <<"c", "h", "a", "r", "C", "o", "d", "e", "A", "t">>,
     <<"c", "o", "d", "e", "P", "o", "i", "n", "t", "A", "t">>,
     <<"c", "o", "n", "c", "a", "t">>,
     <<"e", "n", "d", "s", "W", "i", "t", "h">>,
     <<"f", "o", "n", "t", "c", "o", "l", "o", "r">>,
     <<"f", "i", "x", "e", "d">>,
     <<"f", "o", "n", "t", "s", "i", "z", "e">>,
     <<"i", "n", "c", "l", "u", "d", "e", "s">>,
     <<"i", "n", "d", "e", "x", "O", "f">>,
     <<"i", "s", "W", "e", "l", "l", "F", "o", "r", "m", "e", "d">>,
     <<"i", "t", "a", "l", "i", "c", "s">>,
     <<"l", "a", "s", "t", "I", "n", "d", "e", "x", "O", "f">>,
     <<"l", "i", "n", "k">>,
     <<"l", "o", "c", "a", "l", "e", "C", "o", "m", "p", "a", "r", "e">>,
     <<"m", "a", "t", "c", "h">>,
     <<"m", "a", "t", "c", "h", "A", "l", "l">>,
     <<"n", "o", "r", "m", "a", "l", "i", "z", "e">>,
     <<"p", "a", "d", "E", "n", "d">>,
     <<"p", "a", "d", "S", "t", "a", "r", "t">>,
     <<"r", "e", "p", "e", "a", "t">>,
     <<"r", "e", "p", "l", "a", "c", "e">>,
     <<"r", "e", "p", "l", "a", "c", "e", "A", "l", "l">>,
     <<"s", "e", "a", "r", "c", "h">>,
     <<"s", "l", "i", "c", "e">>,
     <<"s", "m", "a", "l", "l">>,
     <<"s", "p", "l", "i", "t">>,
     <<"s", "t", "r", "i", "k", "e">>,
     <<"s", "u", "b">>,
     <<"s", "u", "b", "s", "t", "r">>,
     <<"s", "u", "b", "s", "t", "r", "i", "n", "g">>,
     <<"s", "u", "p">>,
     <<"s", "t", "a", "r", "t", "s", "W", "i", "t", "h">>,
     <<"t", "o", "W", "e", "l", "l", "F", "o", "r", "m", "e", "d">>,
     <<"t", "r", "i", "m">>,
     <<"t", "r", "i", "m", "S", "t", "a", "r", "t">>,
     <<"t", "r", "i", "m", "L", "e", "f", "t">>,
     <<"t", "r", "i", "m", "E", "n", "d">>,
     <<"t", "r", "i", "m", "R", "i", "g", "h", "t">>,
     <<"t", "o", "L", "o", "c", "a", "l", "e", "L", "o", "w", "e", "r", "C", "a", "s", "e">>,
     <<"t", "o", "L", "o", "c", "a", "l", "e", "U", "p", "p", "e", "r", "C", "a", "s", "e">>,
     <<"t", "o", "L", "o", "w", "e", "r", "C", "a", "s", "e">>,
     <<"t", "o", "U", "p", "p", "e", "r", "C", "a", "s", "e">>}
NumberMethods ==
    {<<"t", "o", "E", "x", "p", "o", "n", "e", "n", "t", "i", "a", "l">>, <<"t", "o", "F", "i", "x", "e", "d">>, <<"t", "o", "P", "r", "e", "c", "i", "s", "i", "o", "n">>}
\* trimLeft and trimRight are the functions trimStart and trimEnd
MethodOf(key) ==
    IF key = <<"t", "r", "i", "m", "L", "e", "f", "t">> THEN Fun(<<"t", "r", "i", "m", "S", "t", "a", "r", "t">>)
    ELSE IF key = <<"t", "r", "i", "m", "R", "i", "g", "h", "t">> THEN Fun(<<"t", "r", "i", "m", "E", "n", "d">>)
    ELSE Fun(key)

\* val[key] for a value that is truthy: the data of a node, or what a row has
\* for a field named data.  A string has its length and its characters, by
\* their index written as a number.
Member(val, key) ==
    IF val.t = "obj" THEN Prop(val.v, key)
    ELSE IF val.t = "str" /\ key = <<"l", "e", "n", "g", "t", "h">> THEN Num(Len(val.v))
    ELSE IF val.t = "str" /\ \E i \in 1..Len(val.v) : NumToString(i - 1) = key
    THEN Str(<<val.v[CHOOSE i \in 1..Len(val.v) : NumToString(i - 1) = key]>>)
    ELSE IF val.t = "str" /\ key \in StringMethods THEN MethodOf(key)
    ELSE IF val.t = "num" /\ key \in NumberMethods THEN MethodOf(key)
    ELSE IF key = <<"c", "o", "n", "s", "t", "r", "u", "c", "t", "o", "r">>
    THEN Fun(CASE val.t = "str" -> <<"S", "t", "r", "i", "n", "g">>
               [] val.t = "num" -> <<"N", "u", "m", "b", "e", "r">>
               [] OTHER -> <<"B", "o", "o", "l", "e", "a", "n">>)
    ELSE IF key = K_proto THEN Obj(<<>>)
    ELSE Inherited(key)

\* let taskValue = task[key]; if (taskValue === undefined && task.data) taskValue = task.data[key];
\* the boolean fields default to false
OwnOrData(task, key, own) ==
    IF own.t = "undef" /\ Truthy(Prop(task, K_data)) THEN Member(Prop(task, K_data), key) ELSE own
DefaultFalse(key, v) == IF key \in {K_completed, K_skipped} /\ v.t = "undef" THEN Bool(FALSE) ELSE v
TaskValue(task, key) == DefaultFalse(key, OwnOrData(task, key, Prop(task, key)))

\* the value a WHERE literal is compared as
CompareValue(value) ==
    IF value = S_true THEN Bool(TRUE)
    ELSE IF value = S_false THEN Bool(FALSE)
    ELSE NumberOr(NumberOfString(value), Str(processEscapeSequences(value)))

\* ToPrimitive: an array becomes its elements joined by commas, any other object
\* what toString makes of it, and an object with a key toString of its own throws
ToPrimitive(val) ==
    IF StringThrows(val) THEN Thrown
    ELSE IF val.t \in {"arr", "obj", "nodes", "fun"} THEN Str(JsString(val))
    ELSE val

\* what a condition comes to: the boolean it returns, or the TypeError it throws
Returned(b) == [threw |-> FALSE, value |-> b]
WhereThrew == [threw |-> TRUE, value |-> FALSE]

\* Number(v), as [nan, n]
NumberOf(val) ==
    CASE val.t = "num" -> Finite(val.v)
      [] val.t = "str" -> NumberOfString(val.v)
      [] val.t = "bool" -> Finite(DecOfInt(IF val.v THEN 1 ELSE 0))
      [] val.t = "null" -> Finite(Zero)
      [] val.t = "arr" -> NumberOfString(Join(val.v, <<",">>))
      [] OTHER -> NaN

\* x == y, y a boolean, a number or a string
NumbersEqual(a, b) == ~a.nan /\ ~b.nan /\ a.n = b.n
PrimEquals(px, y) ==
    IF px.t = "throw" THEN WhereThrew
    ELSE IF px.t = y.t THEN Returned(px.v = y.v)
    ELSE Returned(NumbersEqual(NumberOf(px), NumberOf(y)))
LooseEquals(x, y) == IF x.t \in {"undef", "null"} THEN Returned(FALSE) ELSE PrimEquals(ToPrimitive(x), y)

\* x < y
NumbersLess(a, b) == ~a.nan /\ ~b.nan /\ DecLess(a.n, b.n)
PrimLess(px, py) ==
    IF px.t = "throw" \/ py.t = "throw" THEN WhereThrew
    ELSE IF px.t = "str" /\ py.t = "str" THEN Returned(StrLess(px.v, py.v))
    ELSE Returned(NumbersLess(NumberOf(px), NumberOf(py)))
LessThan(x, y) == PrimLess(ToPrimitive(x), ToPrimitive(y))

\* String.prototype.includes
IsSubstring(p, s) == \E i \in 0..(Len(s) - Len(p)) : SubSeq(s, i + 1, i + Len(p)) = p

\* taskValue === null || taskValue === undefined || (isBooleanField && taskValue === false)
IsNullValue(key, taskValue) ==
    taskValue.t \in {"null", "undef"} \/ (key \in {K_completed, K_skipped} /\ taskValue = Bool(FALSE))

\* taskValue CONTAINS compareValue
Contains(taskValue, compareValue) ==
    IF taskValue.t = "arr"
    THEN compareValue.t = "str" /\ \E i \in 1..Len(taskValue.v) : taskValue.v[i] = compareValue.v
    ELSE IF taskValue.t = "str" THEN IsSubstring(JsString(compareValue), taskValue.v)
    ELSE FALSE

\* the switch on the operator
Compare(op, taskValue, compareValue) ==
    IF op = <<"=">> THEN LooseEquals(taskValue, compareValue)
    ELSE IF op = <<">">> THEN LessThan(compareValue, taskValue)
    ELSE IF op = <<"<">> THEN LessThan(taskValue, compareValue)
    ELSE IF toUpperCase(op) = W_CONTAINS THEN Returned(Contains(taskValue, compareValue))
    ELSE Returned(TRUE)

\* the condition on the value taskValue of the key
WhereOn(whereTokens, taskValue) ==
    IF Len(whereTokens) >= 3 /\ toUpperCase(whereTokens[2]) = W_IS /\ toUpperCase(whereTokens[3]) = W_NULL
    THEN Returned(IsNullValue(whereTokens[1], taskValue))
    ELSE IF Len(whereTokens) >= 4 /\ toUpperCase(whereTokens[2]) = W_IS
            /\ toUpperCase(whereTokens[3]) = W_NOT /\ toUpperCase(whereTokens[4]) = W_NULL
    THEN Returned(~IsNullValue(whereTokens[1], taskValue))
    ELSE IF Len(whereTokens) < 3 THEN Returned(TRUE)
    ELSE Compare(whereTokens[2], taskValue, CompareValue(whereTokens[3]))

evaluateWhere(task, whereTokens) ==
    IF Len(whereTokens) = 0 THEN Returned(TRUE)
    ELSE WhereOn(whereTokens, TaskValue(task, whereTokens[1]))

-----------------------------------------------------------------------------
(* cli.js: the query command                                               *)

\* A file of the file system: absent, or the lines loadFileLines reads from it.
NoFile == [exists |-> FALSE, lines |-> <<>>]
FileOf(lines) == [exists |-> TRUE, lines |-> lines]

\* raw.split(/\r?\n/)
RECURSIVE SplitLines(_)
SplitLines(raw) ==
    LET ix == {i \in 1..Len(raw) : raw[i] = "\n"}
    IN  IF ix = {} THEN <<raw>>
        ELSE LET a == IF \E i \in ix : i + i >= Len(raw)
                      THEN MinOf({i \in ix : i + i >= Len(raw)}) ELSE MaxOf(ix)
                 e == IF a > 1 /\ raw[a - 1] = "\r" THEN a - 2 ELSE a - 1
             IN  SplitLines(SubSeq(raw, 1, e)) \o SplitLines(DropFirst(raw, a))

\* what loadFileLines reads back after fs.writeFileSync(path, lines.join('\n'))
WrittenLines(lines) == SplitLines(Join(lines, <<"\n">>))

\* fs.existsSync(file)
Exists(fsys, file) == file \in DOMAIN fsys /\ fsys[file].exists

\* the result of a command: the file system it leaves, its outcome (exit code 0
\* is "ok", anything else "error"), its output rows, and the write it made:
\* the file written, and the two arguments it gave to replaceTodoSection
NoWrite == [done |-> FALSE, file |-> <<>>, targetLines |-> <<>>, taskLines |-> <<>>]
Result(fsys, outcome, reason, rows, write) ==
    [fs |-> fsys, outcome |-> outcome, reason |-> reason, rows |-> rows, write |-> write]
Fail(fsys, reason) == Result(fsys, "error", reason, <<>>, NoWrite)
\* fs.writeFileSync(file, replaceTodoSection(targetLines, taskLines).join('\n'))
Written(fsys, file, targetLines, taskLines) ==
    Result([fsys EXCEPT ![file] = FileOf(WrittenLines(replaceTodoSection(targetLines, taskLines)))],
           "ok", "", <<>>,
           [done |-> TRUE, file |-> file, targetLines |-> targetLines, taskLines |-> taskLines])

\* { id: n.id, parent: n.parent ?? null, ...n.data }
RECURSIVE Spread(_, _)
Spread(row, data) == IF data = <<>> THEN row ELSE Spread(Put(row, Head(data)[1], Head(data)[2]), Tail(data))

RowOf(n) ==
    Spread(<< <<K_id, n.id>>, <<K_parent, IF n.parent.t = "undef" THEN Null ELSE n.parent>> >>, n.data)

\* the field selection of SELECT for one row
RECURSIVE SelectFields(_, _, _)
SelectFields(task, fields, selected) ==
    IF fields = <<>> THEN selected
    ELSE SelectFields(task, Tail(fields),
                      IF Prop(task, Head(fields)).t # "undef"
                      THEN Assign(selected, Head(fields), Prop(task, Head(fields)))
                      ELSE selected)

\* the integer a whole number is, when the integers of the model hold it
RECURSIVE NatOfDigits(_)
NatOfDigits(d) == IF d = <<>> THEN 0 ELSE 10 * NatOfDigits(SubSeq(d, 1, Len(d) - 1)) + d[Len(d)]
IntOfDec(x) == (IF x.neg THEN -1 ELSE 1) * NatOfDigits(x.dig) * 10^x.exp

\* flatData.slice(0, limit): the end counts from the end of the array when it is
\* negative, and it stays within the array
SliceTo(arr, limit) ==
    IF limit.neg
    THEN IF DecLess(DecOfInt(0 - Len(arr)), limit) THEN SubSeq(arr, 1, Len(arr) + IntOfDec(limit))
         ELSE <<>>
    ELSE IF DecLess(limit, DecOfInt(Len(arr))) THEN SubSeq(arr, 1, IntOfDec(limit))
    ELSE arr

\* the rows SELECT prints: ORDER BY, then WHERE, then LIMIT, then the field selection
FlatData(h, flat) == [i \in 1..Len(flat) |-> RowOf(h[flat[i]])]
FilterRows(flatData, q) ==
    IF q.hasWhere
    THEN KeepIdx(flatData, {i \in 1..Len(flatData) : evaluateWhere(TaskOfRow(flatData[i]), q.where).value}, 1)
    ELSE flatData
\* the filter throws what evaluateWhere throws for a row
FilterThrows(flatData, q) ==
    q.hasWhere /\ \E i \in 1..Len(flatData) : evaluateWhere(TaskOfRow(flatData[i]), q.where).threw
LimitRows(filtered, q) == IF q.hasLimit /\ q.limit # Zero THEN SliceTo(filtered, q.limit) ELSE filtered
ProjectRows(limited, q) ==
    IF q.fields = <<>> \/ q.fields[1] # <<"*">>
    THEN [i \in 1..Len(limited) |->
             SelectFields(limited[i], q.fields,
                          << <<K_id, Get(limited[i], K_id)>>, <<K_parent, Get(limited[i], K_parent)>> >>)]
    ELSE limited
SelectRows(h, flat, q) == ProjectRows(LimitRows(FilterRows(FlatData(h, flat), q), q), q)

\* mapNodes(nodes): the nodes in the order idToNode.set is called for them
RECURSIVE mapNodes(_, _)
mapNodes(h, nodes) ==
    IF nodes = <<>> THEN <<>>
    ELSE <<Head(nodes)>> \o mapNodes(h, h[Head(nodes)].children) \o mapNodes(h, Tail(nodes))

\* idToNode.get(id): the last node that was set for the id, 0 when there is none
LastOf(mapped, ix) == IF ix = {} THEN 0 ELSE mapped[MaxOf(ix)]
IdToNode(h, mapped, id) == LastOf(mapped, {i \in 1..Len(mapped) : h[mapped[i]].id = id})

S_root == <<"_", "_", "r", "o", "o", "t">>

\* parentGroups.get(parentId) || []
ParentGroup(h, flat, parentId) ==
    KeepIdx(flat, {i \in 1..Len(flat) :
                      (IF h[flat[i]].parent.t \in {"null", "undef"} THEN Str(S_root)
                       ELSE h[flat[i]].parent) = parentId}, 1)

\* buildTreeForParent(parentId), on the heap: [h, arr, ok].  The recursion of the
\* code ends only when no id is met twice on one path; depth counts the calls that
\* are open, and ok is FALSE when the call stack overflows (a RangeError).
RECURSIVE BuildGroup(_, _, _, _, _, _)
\* the rest of the group after node, whose children are sub
BuildRest(flat, mapped, group, arr, depth, node, sub) ==
    IF ~sub.ok THEN sub
    ELSE BuildGroup([sub.h EXCEPT ![node].children = sub.arr], flat, mapped,
                    Tail(group), Append(arr, node), depth)

\* node.children = buildTreeForParent(t.id)
BuildNode(h, flat, mapped, group, arr, depth, node) ==
    BuildRest(flat, mapped, group, arr, depth, node,
              IF depth > Len(h) + 1 THEN [h |-> h, arr |-> <<>>, ok |-> FALSE]
              ELSE BuildGroup(h, flat, mapped, ParentGroup(h, flat, h[node].id), <<>>, depth + 1))

\* idToNode.get(t.id) || t
NodeOr(found, entry) == IF found # 0 THEN found ELSE entry

BuildGroup(h, flat, mapped, group, arr, depth) ==
    IF group = <<>> THEN [h |-> h, arr |-> arr, ok |-> TRUE]
    ELSE BuildNode(h, flat, mapped, group, arr, depth,
                   NodeOr(IdToNode(h, mapped, h[Head(group)].id), Head(group)))

buildTreeForParent(h, flat, mapped, parentId) ==
    BuildGroup(h, flat, mapped, ParentGroup(h, flat, parentId), <<>>, 1)

\* SELECT: cli.js 542-624
\* the write of the tree t: [h, arr]
WriteTree(fsys, file, targetLines, t) ==
    IF SerializeThrows(t.h, t.arr) THEN Fail(fsys, "crash")
    ELSE Written(fsys, file, targetLines, serializeTasksToLines(t.h, t.arr))

\* the lines the result of INTO replaces the task section of
TargetLines(fsys, file, lines, targetPath) ==
    IF Exists(fsys, file) /\ targetPath = file THEN lines
    ELSE IF Exists(fsys, targetPath) THEN fsys[targetPath].lines
    ELSE fsys[file].lines

SelectInto(fsys, q, file, lines, built) ==
    IF ~built.ok THEN Fail(fsys, "crash")
    ELSE WriteTree(fsys, q.into.v, TargetLines(fsys, file, lines, q.into.v), built)

SelectSorted(fsys, q, file, lines, roots, h, flat) ==
    IF FilterThrows(FlatData(h, flat), q) THEN Fail(fsys, "crash")
    ELSE IF ~Truthy(q.into) THEN Result(fsys, "ok", "", SelectRows(h, flat, q), NoWrite)
    ELSE SelectInto(fsys, q, file, lines, buildTreeForParent(h, flat, mapNodes(h, roots), Str(S_root)))

\* the command after multiKeySort; nothing catches what cmp throws
SelectOrderedBy(fsys, q, file, lines, roots, h, sorted) ==
    IF sorted.threw THEN Fail(fsys, "crash")
    ELSE SelectSorted(fsys, q, file, lines, roots, h, sorted.arr)

SelectCollected(fsys, q, file, lines, roots, c) ==
    SelectOrderedBy(fsys, q, file, lines, roots, c.h,
                    IF q.hasOrderBy THEN multiKeySort(c.h, c.out, q.orderBy) ELSE SortDone(c.out))

DoSelect(fsys, q, file, lines, tree) ==
    SelectCollected(fsys, q, file, lines, tree.roots, collectTasks(tree.heap, tree.roots))

\* The SET assignments applied to the data of one task: [data, ok].  ok is FALSE
\* when an assignment has no value: processEscapeSequences(undefined) throws.
\* the value an assignment stores
AssignedValue(key, value) ==
    IF key \in {K_stakeholders, K_tags} THEN Arr(SplitItems(value)) ELSE ConvertValue(value)

RECURSIVE ApplySet(_, _)
ApplySet(data, set) ==
    IF set = <<>> THEN [data |-> data, ok |-> TRUE]
    ELSE IF Head(set).value.t = "undef" THEN [data |-> data, ok |-> FALSE]
    ELSE ApplySet(Assign(data, Head(set).key,
                         AssignedValue(Head(set).key, processEscapeSequences(Head(set).value.v))),
                  Tail(set))

\* every item of a tags or stakeholders assignment is a valid name
ItemsValid(key, items) ==
    \A i \in 1..Len(items) :
        IF key = K_tags THEN validateTagName(items[i]) ELSE validateStakeholderName(items[i])

\* The validation UPDATE runs before it applies anything: "" when it passes,
\* "invalid" at the first bad item, "crash" at a tags or stakeholders key with no value.
RECURSIVE ValidateSet(_)
ValidateSet(set) ==
    IF set = <<>> THEN ""
    ELSE IF Head(set).key \notin {K_tags, K_stakeholders} THEN ValidateSet(Tail(set))
    ELSE IF Head(set).value.t = "undef" THEN "crash"
    ELSE IF ~ItemsValid(Head(set).key, SplitItems(processEscapeSequences(Head(set).value.v)))
    THEN "invalid"
    ELSE ValidateSet(Tail(set))

\* flat.forEach of UPDATE, on the heap: [h, updatedCount, ok]
RECURSIVE UpdateLoop(_, _, _, _)
\* the first task of flat takes the data a of the assignments
Applied(h, flat, q, updatedCount, a) ==
    IF ~a.ok THEN [h |-> h, updatedCount |-> updatedCount, ok |-> FALSE]
    ELSE UpdateLoop([h EXCEPT ![Head(flat)].data = a.data], Tail(flat), q, updatedCount + 1)

UpdateLoop(h, flat, q, updatedCount) ==
    IF flat = <<>> THEN [h |-> h, updatedCount |-> updatedCount, ok |-> TRUE]
    ELSE IF evaluateWhere(TaskOfNode(h[Head(flat)]), q.where).threw
    THEN [h |-> h, updatedCount |-> updatedCount, ok |-> FALSE]
    ELSE IF ~evaluateWhere(TaskOfNode(h[Head(flat)]), q.where).value
    THEN UpdateLoop(h, Tail(flat), q, updatedCount)
    ELSE Applied(h, flat, q, updatedCount, ApplySet(h[Head(flat)].data, q.set))

\* UPDATE: cli.js 625-686
\* a command ends with the reason when there is one
FailOr(fsys, reason, result) == IF reason # "" THEN Fail(fsys, reason) ELSE result

UpdateApplied(fsys, file, lines, roots, u) ==
    IF ~u.ok THEN Fail(fsys, "crash")
    ELSE WriteTree(fsys, file, lines, [h |-> u.h, arr |-> roots])

UpdateCollected(fsys, q, file, lines, roots, c) ==
    UpdateApplied(fsys, file, lines, roots, UpdateLoop(c.h, c.out, q, 0))

DoUpdate(fsys, q, file, lines, tree) ==
    FailOr(fsys, ValidateSet(q.set),
           UpdateCollected(fsys, q, file, lines, tree.roots, collectTasks(tree.heap, tree.roots)))

\* the ids of the tasks that satisfy the WHERE clause
ToDelete(h, flat, q) ==
    {h[flat[i]].id : i \in {j \in 1..Len(flat) : evaluateWhere(TaskOfNode(h[flat[j]]), q.where).value}}
\* nothing catches what evaluateWhere throws in flat.forEach
DeleteThrows(h, flat, q) == \E j \in 1..Len(flat) : evaluateWhere(TaskOfNode(h[flat[j]]), q.where).threw

\* removeFromTree(nodes), on the heap: [h, arr]
RECURSIVE removeFromTree(_, _, _)
\* the node kept, before the rest of its siblings
Kept(node, rest) == [h |-> rest.h, arr |-> <<node>> \o rest.arr]

\* node.children = removeFromTree(node.children)
WithKept(h, node, sub) == [sub.h EXCEPT ![node].children = sub.arr]

removeFromTree(h, nodes, toDelete) ==
    IF nodes = <<>> THEN [h |-> h, arr |-> <<>>]
    ELSE IF h[Head(nodes)].id \in toDelete THEN removeFromTree(h, Tail(nodes), toDelete)
    ELSE Kept(Head(nodes),
              removeFromTree(WithKept(h, Head(nodes),
                                      removeFromTree(h, h[Head(nodes)].children, toDelete)),
                             Tail(nodes), toDelete))

\* DELETE: cli.js 687-712
DeleteCollected(fsys, q, file, lines, roots, c) ==
    IF DeleteThrows(c.h, c.out, q) THEN Fail(fsys, "crash")
    ELSE WriteTree(fsys, file, lines, removeFromTree(c.h, roots, ToDelete(c.h, c.out, q)))

DoDelete(fsys, q, file, lines, tree) ==
    DeleteCollected(fsys, q, file, lines, tree.roots, collectTasks(tree.heap, tree.roots))

\* The SET assignments of INSERT, validated one by one: [data, reason]
RECURSIVE InsertSet(_, _)
InsertValue(data, set, key, value) ==
    IF key \in {K_stakeholders, K_tags} /\ ~ItemsValid(key, SplitItems(value))
    THEN [data |-> data, reason |-> "invalid"]
    ELSE InsertSet(Assign(data, key, AssignedValue(key, value)), Tail(set))

InsertSet(data, set) ==
    IF set = <<>> THEN [data |-> data, reason |-> ""]
    ELSE IF Head(set).value.t = "undef" THEN [data |-> data, reason |-> "crash"]
    ELSE InsertValue(data, set, Head(set).key, processEscapeSequences(Head(set).value.v))

\* INSERT: cli.js 713-772
\* const newNode = { data: {}, children: [], indent: 0, inline: 'dummy' }, with its id
NewNode(data) ==
    ensureIdOnNode([data |-> data, children |-> <<>>, indent |-> 0,
                    inline |-> <<"d", "u", "m", "m", "y">>, id |-> Undef, parent |-> Undef])

\* rootTasks.push(newNode)
WithRoot(tree, newNode) ==
    [h |-> Append(tree.heap, newNode), arr |-> Append(tree.roots, Len(tree.heap) + 1)]

DoInsert(fsys, q, file, lines, tree) ==
    FailOr(fsys, InsertSet(<<>>, q.set).reason,
           WriteTree(fsys, file, lines, WithRoot(tree, NewNode(InsertSet(<<>>, q.set).data))))

\* a parse that is not asked to lint
LintNotAsked(lines) == FALSE

\* parseFileToTree throws when lintLines finds an error: part_004 168-175
LintBlocks(lines) == lintLines(lines).errors # <<>>

\* The query command: cli.js 495-773
\* the switch on the command
Dispatch(fsys, q, file, lines, tree) ==
    IF q.command = W_SELECT THEN DoSelect(fsys, q, file, lines, tree)
    ELSE IF q.command = W_UPDATE THEN DoUpdate(fsys, q, file, lines, tree)
    ELSE IF q.command = W_DELETE THEN DoDelete(fsys, q, file, lines, tree)
    ELSE DoInsert(fsys, q, file, lines, tree)

\* the command on the lines of its file
RunOn(fsys, q, file, exists, lines) ==
    IF exists /\ LintBlocks(lines) THEN Fail(fsys, "lint")
    ELSE IF ~exists /\ q.command # W_INSERT THEN Fail(fsys, "nofile")
    ELSE Dispatch(fsys, q, file, lines,
                  IF exists THEN ParseTree(lines) ELSE [heap |-> <<>>, roots |-> <<>>])

\* the parsed query q
RunParsed(fsys, q) ==
    IF q.err THEN Fail(fsys, "parse")
    ELSE IF ~Truthy(q.file) THEN Fail(fsys, "nofile")
    ELSE RunOn(fsys, q, q.file.v, Exists(fsys, q.file.v),
               IF Exists(fsys, q.file.v) THEN fsys[q.file.v].lines ELSE <<>>)

RunQuery(fsys, query) == RunParsed(fsys, parseQuery(query))

-----------------------------------------------------------------------------
(* cli.js: parseArgs and the select command                                *)

K_under == <<"_">>

\* parseArgs(args): [threw, result], the object result with the arguments that
\* are no option under its key _
RECURSIVE ArgsLoop(_, _, _)
\* an option takes the argument after it as its value, or true when there is
\* none or when it begins with the same dashes
TakeOption(args, i, dashes, result) ==
    IF i + 1 <= Len(args) /\ ~StartsWith(args[i + 1], dashes)
    THEN ArgsLoop(args, i + 2, Assign(result, DropFirst(args[i], Len(dashes)), Str(args[i + 1])))
    ELSE ArgsLoop(args, i + 1, Assign(result, DropFirst(args[i], Len(dashes)), Bool(TRUE)))

\* result._.push(arg) throws once an option named _ has replaced the array
ArgsLoop(args, i, result) ==
    IF i > Len(args) THEN [threw |-> FALSE, result |-> result]
    ELSE IF StartsWith(args[i], <<"-", "-">>) THEN TakeOption(args, i, <<"-", "-">>, result)
    ELSE IF StartsWith(args[i], <<"-">>) THEN TakeOption(args, i, <<"-">>, result)
    ELSE IF Get(result, K_under).t # "arr" THEN [threw |-> TRUE, result |-> result]
    ELSE ArgsLoop(args, i + 1, Put(result, K_under, Arr(Append(Get(result, K_under).v, args[i]))))

parseArgs(args) == ArgsLoop(args, 1, << <<K_under, Arr(<<>>)>> >>)

\* argv._[i]
ArgvAt(result, i) ==
    IF Get(result, K_under).t \in {"arr", "str"} /\ i + 1 <= Len(Get(result, K_under).v)
    THEN Str(IF Get(result, K_under).t = "arr" THEN Get(result, K_under).v[i + 1]
             ELSE <<Get(result, K_under).v[i + 1]>>)
    ELSE Undef

\* const cmd = argv._[0]
CmdOf(args) == IF parseArgs(args).threw THEN Undef ELSE ArgvAt(parseArgs(args).result, 0)

\* the loop over rawArgs for orderby, --format and into: the argument after each,
\* undefined when there is none
RawArg(rawArgs, i) == IF i <= Len(rawArgs) THEN Str(rawArgs[i]) ELSE Undef
RECURSIVE ScanArgs(_, _, _)
ScanArgs(rawArgs, i, o) ==
    IF i > Len(rawArgs) THEN o
    ELSE IF rawArgs[i] = <<"o", "r", "d", "e", "r", "b", "y">>
    THEN ScanArgs(rawArgs, i + 2, [o EXCEPT !.orderby = RawArg(rawArgs, i + 1)])
    ELSE IF rawArgs[i] = <<"-", "-", "f", "o", "r", "m", "a", "t">>
    THEN ScanArgs(rawArgs, i + 2, [o EXCEPT !.format = RawArg(rawArgs, i + 1)])
    ELSE IF rawArgs[i] = <<"i", "n", "t", "o">>
    THEN ScanArgs(rawArgs, i + 2, [o EXCEPT !.intoFile = RawArg(rawArgs, i + 1)])
    ELSE ScanArgs(rawArgs, i + 1, o)

\* orderby.split(',').map(...): the keys and their directions
KeyOfParts(parts) ==
    [key |-> parts[1],
     dir |-> IF Len(parts) >= 2 /\ toLowerCase(parts[2]) = <<"d", "e", "s", "c">>
             THEN <<"d", "e", "s", "c">> ELSE <<"a", "s", "c">>]
KeySpecOf(orderby) ==
    [i \in 1..Len(SplitOn(orderby, ",")) |-> KeyOfParts(SplitWs(Trim(SplitOn(orderby, ",")[i])))]

\* the select command after the sort: into writes the tree, or the rows are printed
SelectSortedArgs(fsys, o, file, lines, roots, h, sorted) ==
    IF sorted.threw THEN Fail(fsys, "crash")
    ELSE IF Truthy(o.intoFile)
    THEN SelectInto(fsys, [into |-> o.intoFile], file, lines,
                    buildTreeForParent(h, sorted.arr, mapNodes(h, roots), Str(S_root)))
    ELSE Result(fsys, "ok", "", FlatData(h, sorted.arr), NoWrite)

SelectCollectedArgs(fsys, o, file, lines, roots, c) ==
    SelectSortedArgs(fsys, o, file, lines, roots, c.h,
                     IF Truthy(o.orderby) THEN multiKeySort(c.h, c.out, KeySpecOf(o.orderby.v))
                     ELSE SortDone(c.out))

SelectParsedArgs(fsys, o, file, lines, tree) ==
    SelectCollectedArgs(fsys, o, file, lines, tree.roots, collectTasks(tree.heap, tree.roots))

SelectScanned(fsys, o, file) ==
    IF o.format \notin {Str(<<"j", "s", "o", "n">>), Str(<<"t", "a", "b", "l", "e">>)}
    THEN Fail(fsys, "format")
    ELSE IF LintBlocks(fsys[file].lines) THEN Fail(fsys, "lint")
    ELSE SelectParsedArgs(fsys, o, file, fsys[file].lines, ParseTree(fsys[file].lines))

\* the select command: cli.js 776-887, for arguments whose command is select
SelectFile(fsys, args, file) ==
    IF ~Truthy(file) \/ ~Exists(fsys, file.v) THEN Fail(fsys, "nofile")
    ELSE SelectScanned(fsys, ScanArgs(args, 1, [orderby |-> Null, format |-> Str(<<"j", "s", "o", "n">>),
                                                intoFile |-> Null]), file.v)

\* printHelp and exit 0 when the option help or h is given: cli.js 468-475
RunSelect(fsys, args) ==
    IF Truthy(Prop(parseArgs(args).result, <<"h", "e", "l", "p">>))
       \/ Truthy(Prop(parseArgs(args).result, <<"h">>))
    THEN Result(fsys, "ok", "", <<>>, NoWrite)
    ELSE SelectFile(fsys, args, ArgvAt(parseArgs(args).result, 1))


-----------------------------------------------------------------------------
(* The documents and the queries of the model                               *)

\* Blocks of lines, one task each.
\* a task with no id: its id is the hash of its identity fields:  - "T"
B_T ==
    << <<"-", " ", "\"", "T", "\"">> >>
\* the same identity fields as B_T, and one more field:  - "T" w: 1
B_Tw ==
    << <<"-", " ", "\"", "T", "\"", " ", "w", ":", " ", "1">> >>
\* an explicit id, written inline:  - "U" id: t1
B_U ==
    << <<"-", " ", "\"", "U", "\"", " ", "i", "d", ":", " ", "t", "1">> >>
\* the same explicit id, written on a continuation line:  - "V" /   id: t1
B_V ==
    << <<"-", " ", "\"", "V", "\"">>,
       <<" ", " ", "i", "d", ":", " ", "t", "1">> >>
\* a completed task:  - x "W" id: t2
B_W ==
    << <<"-", " ", "x", " ", "\"", "W", "\"", " ", "i", "d", ":", " ", "t", "2">> >>
\* an explicit id made of digits, with leading zeros:  - "X" id: 007
B_X ==
    << <<"-", " ", "\"", "X", "\"", " ", "i", "d", ":", " ", "0", "0", "7">> >>
\* an unclosed quote: a lint error:  - "T
B_Bad ==
    << <<"-", " ", "\"", "T">> >>
\* an unquoted value with a space: a lint warning:  - "Y" /   n: a b
B_Y ==
    << <<"-", " ", "\"", "Y", "\"">>,
       <<" ", " ", "n", ":", " ", "a", " ", "b">> >>

Blocks == {B_T, B_Tw, B_U, B_V, B_W, B_X, B_Bad, B_Y}

\* the lines around the task section of a file that has one
DocHead ==
    << <<"#", " ", "D", "o", "c">>,
       <<"#", "#", " ", "T", "O", "D", "O">> >>
DocFoot ==
    << <<>>,
       <<"#", "#", " ", "N", "o", "t", "e", "s">>,
       <<"t", "e", "x", "t">> >>

\* The queries, as the command line gives them.
\* SELECT * FROM f
Q_Sel ==
    << "S", "E", "L", "E", "C", "T", " ", "*", " ", "F", "R", "O", "M", " ",
       "f" >>
\* SELECT * FROM f WHERE w = 1
Q_SelW ==
    << "S", "E", "L", "E", "C", "T", " ", "*", " ", "F", "R", "O", "M", " ",
       "f", " ", "W", "H", "E", "R", "E", " ", "w", " ", "=", " ", "1" >>
\* SELECT * FROM f WHERE w = 1 INTO g
Q_SelInto ==
    << "S", "E", "L", "E", "C", "T", " ", "*", " ", "F", "R", "O", "M", " ",
       "f", " ", "W", "H", "E", "R", "E", " ", "w", " ", "=", " ", "1", " ",
       "I", "N", "T", "O", " ", "g" >>
\* SELECT * FROM f LIMIT 1 INTO g
Q_SelLim ==
    << "S", "E", "L", "E", "C", "T", " ", "*", " ", "F", "R", "O", "M", " ",
       "f", " ", "L", "I", "M", "I", "T", " ", "1", " ", "I", "N", "T", "O",
       " ", "g" >>
\* UPDATE f SET priority = 'A' WHERE id = 't1'
Q_UpdPri ==
    << "U", "P", "D", "A", "T", "E", " ", "f", " ", "S", "E", "T", " ", "p",
       "r", "i", "o", "r", "i", "t", "y", " ", "=", " ", "'", "A", "'", " ",
       "W", "H", "E", "R", "E", " ", "i", "d", " ", "=", " ", "'", "t", "1",
       "'" >>
\* UPDATE f SET priority = 'A' WHERE id = '73c5e9af'
Q_UpdPriH ==
    << "U", "P", "D", "A", "T", "E", " ", "f", " ", "S", "E", "T", " ", "p",
       "r", "i", "o", "r", "i", "t", "y", " ", "=", " ", "'", "A", "'", " ",
       "W", "H", "E", "R", "E", " ", "i", "d", " ", "=", " ", "'", "7", "3",
       "c", "5", "e", "9", "a", "f", "'" >>
\* UPDATE f SET priority = 'A' WHERE id = '007'
Q_UpdPri7 ==
    << "U", "P", "D", "A", "T", "E", " ", "f", " ", "S", "E", "T", " ", "p",
       "r", "i", "o", "r", "i", "t", "y", " ", "=", " ", "'", "A", "'", " ",
       "W", "H", "E", "R", "E", " ", "i", "d", " ", "=", " ", "'", "0", "0",
       "7", "'" >>
\* UPDATE f SET tags = 'a, b' WHERE id = 't1'
Q_UpdTags ==
    << "U", "P", "D", "A", "T", "E", " ", "f", " ", "S", "E", "T", " ", "t",
       "a", "g", "s", " ", "=", " ", "'", "a", ",", " ", "b", "'", " ", "W",
       "H", "E", "R", "E", " ", "i", "d", " ", "=", " ", "'", "t", "1", "'" >>
\* UPDATE f SET tags = 'a b' WHERE id = 't1'
Q_UpdBad ==
    << "U", "P", "D", "A", "T", "E", " ", "f", " ", "S", "E", "T", " ", "t",
       "a", "g", "s", " ", "=", " ", "'", "a", " ", "b", "'", " ", "W", "H",
       "E", "R", "E", " ", "i", "d", " ", "=", " ", "'", "t", "1", "'" >>
\* UPDATE f SET w = 2, stakeholders = 'x@y'
Q_UpdBadS ==
    << "U", "P", "D", "A", "T", "E", " ", "f", " ", "S", "E", "T", " ", "w",
       " ", "=", " ", "2", ",", " ", "s", "t", "a", "k", "e", "h", "o", "l",
       "d", "e", "r", "s", " ", "=", " ", "'", "x", "@", "y", "'" >>
\* DELETE FROM f WHERE id = 't1'
Q_DelId ==
    << "D", "E", "L", "E", "T", "E", " ", "F", "R", "O", "M", " ", "f", " ",
       "W", "H", "E", "R", "E", " ", "i", "d", " ", "=", " ", "'", "t", "1",
       "'" >>
\* DELETE FROM f WHERE w = 1
Q_DelW ==
    << "D", "E", "L", "E", "T", "E", " ", "F", "R", "O", "M", " ", "f", " ",
       "W", "H", "E", "R", "E", " ", "w", " ", "=", " ", "1" >>
\* INSERT INTO f SET title = 'N'
Q_InsN ==
    << "I", "N", "S", "E", "R", "T", " ", "I", "N", "T", "O", " ", "f", " ",
       "S", "E", "T", " ", "t", "i", "t", "l", "e", " ", "=", " ", "'", "N",
       "'" >>
\* INSERT INTO f SET title = 'T'
Q_InsT ==
    << "I", "N", "S", "E", "R", "T", " ", "I", "N", "T", "O", " ", "f", " ",
       "S", "E", "T", " ", "t", "i", "t", "l", "e", " ", "=", " ", "'", "T",
       "'" >>
\* INSERT INTO f SET title = 'N', tags = 'a b'
Q_InsBad ==
    << "I", "N", "S", "E", "R", "T", " ", "I", "N", "T", "O", " ", "f", " ",
       "S", "E", "T", " ", "t", "i", "t", "l", "e", " ", "=", " ", "'", "N",
       "'", ",", " ", "t", "a", "g", "s", " ", "=", " ", "'", "a", " ", "b",
       "'" >>
\* INSERT INTO g SET title = 'N'
Q_InsG ==
    << "I", "N", "S", "E", "R", "T", " ", "I", "N", "T", "O", " ", "g", " ",
       "S", "E", "T", " ", "t", "i", "t", "l", "e", " ", "=", " ", "'", "N",
       "'" >>

Queries == {Q_Sel, Q_SelW, Q_SelInto, Q_SelLim, Q_UpdPri, Q_UpdPriH,
            Q_UpdPri7, Q_UpdTags, Q_UpdBad, Q_UpdBadS, Q_DelId, Q_DelW,
            Q_InsN, Q_InsT, Q_InsBad, Q_InsG}

\* a block nested under the task before it
Nest(block) == [i \in 1..Len(block) |-> <<" ", " ">> \o block[i]]

\* the greatest number of tasks of an initial document
MaxTasks == 2
\* the greatest number of commands run
MaxSteps == 1

\* the task lines of the initial documents: up to n blocks, each after the first
\* a sibling or a child of the first
RECURSIVE BodiesOf(_)
BodiesOf(n) ==
    IF n = 0 THEN {<<>>}
    ELSE LET prev == BodiesOf(n - 1)
         IN  prev \cup {b \o blk : b \in prev, blk \in Blocks}
                  \cup {b \o Nest(blk) : b \in prev \ {<<>>}, blk \in Blocks}

\* a file that is nothing but task lines, and a file with a task section
Docs == BodiesOf(MaxTasks) \cup {DocHead \o b \o DocFoot : b \in BodiesOf(MaxTasks)}

F_f == <<"f">>
F_g == <<"g">>
Files == {F_f, F_g}

-----------------------------------------------------------------------------
(* The state machine: one CLI run per step                                 *)

\* the lines a file reads as whose text is the lines of doc joined by newlines:
\* a file of no bytes reads as one empty line
ReadAs(doc) == FileOf(WrittenLines(doc))

Init ==
    /\ \E doc \in Docs : fs = [file \in Files |-> IF file = F_f THEN ReadAs(doc) ELSE NoFile]
    /\ last = [query |-> <<>>, args |-> <<>>, before |-> [file \in Files |-> NoFile],
               outcome |-> "start", reason |-> "", rows |-> <<>>, write |-> NoWrite]
    /\ steps = 0

\* process.argv[3] given to the query command: one run of the CLI
Run(query, r) ==
    /\ steps < MaxSteps
    /\ fs' = r.fs
    /\ last' = [query |-> query, args |-> <<>>, before |-> fs, outcome |-> r.outcome,
                reason |-> r.reason, rows |-> r.rows, write |-> r.write]
    /\ steps' = steps + 1

CommandOf(query) == parseQuery(query).command

\* the queries of each command
SelectQueries == {query \in Queries : CommandOf(query) = W_SELECT}
UpdateQueries == {query \in Queries : CommandOf(query) = W_UPDATE}
DeleteQueries == {query \in Queries : CommandOf(query) = W_DELETE}
InsertQueries == {query \in Queries : CommandOf(query) = W_INSERT}

Select == \E query \in SelectQueries : Run(query, RunQuery(fs, query))
Update == \E query \in UpdateQueries : Run(query, RunQuery(fs, query))
Delete == \E query \in DeleteQueries : Run(query, RunQuery(fs, query))
Insert == \E query \in InsertQueries : Run(query, RunQuery(fs, query))

\* process.argv.slice(2) given to the CLI, the command being select
RunArgs(args, r) ==
    /\ steps < MaxSteps
    /\ fs' = r.fs
    /\ last' = [query |-> <<>>, args |-> args, before |-> fs, outcome |-> r.outcome,
                reason |-> r.reason, rows |-> r.rows, write |-> r.write]
    /\ steps' = steps + 1

A_select == <<"s", "e", "l", "e", "c", "t">>
A_orderby == <<"o", "r", "d", "e", "r", "b", "y">>
A_into == <<"i", "n", "t", "o">>
A_format == <<"-", "-", "f", "o", "r", "m", "a", "t">>
\* select f | select f orderby 'w desc, title' | select f into g | select f orderby w into f |
\* select f --format table | select f --format xml | select f into g --format |
\* select g | select | select f -h
SelectArgs ==
    {<<A_select, F_f>>,
     <<A_select, F_f, A_orderby, <<"w", " ", "d", "e", "s", "c", ",", " ", "t", "i", "t", "l", "e">>>>,
     <<A_select, F_f, A_into, F_g>>,
     <<A_select, F_f, A_orderby, <<"w">>, A_into, F_f>>,
     <<A_select, F_f, A_format, <<"t", "a", "b", "l", "e">>>>,
     <<A_select, F_f, A_format, <<"x", "m", "l">>>>,
     <<A_select, F_f, A_into, F_g, A_format>>,
     <<A_select, F_g>>,
     <<A_select>>,
     <<A_select, F_f, <<"-", "h">>>>}

\* the argument vectors whose command is select
SelectCommands == {args \in SelectArgs : CmdOf(args) = Str(A_select)}

SelectCommand == \E args \in SelectCommands : RunArgs(args, RunSelect(fs, args))

Next == Select \/ Update \/ Delete \/ Insert \/ SelectCommand

Spec == Init /\ [][Next]_vars

-----------------------------------------------------------------------------
(* The query command on tasks with the fields w and v: compound and        *)
(* malformed WHERE clauses                                                  *)

\* " key: value", nothing when the task has no such field
FieldText(key, value) == IF value = <<>> THEN <<>> ELSE <<" ">> \o key \o <<":", " ">> \o value

\* the line of a task with an explicit id:  - "T" w: 1 v: 1 id: a
TaskLine(title, w, v, id) ==
    <<"-", " ", "\"">> \o title \o <<"\"">>
    \o FieldText(<<"w">>, w) \o FieldText(<<"v">>, v) \o FieldText(K_id, id)

\* the ids of the tasks of a document, by position
TaskIds == << <<"a">>, <<"b">>, <<"c">>, <<"d">>, <<"e">> >>

\* the documents of up to n tasks, w and v of each absent or one of values
RECURSIVE FieldDocs(_, _)
FieldDocs(n, values) ==
    IF n = 0 THEN {<<>>}
    ELSE FieldDocs(n - 1, values)
         \cup {Append(d, TaskLine(<<"T">>, w, v, TaskIds[n])) :
                  d \in {p \in FieldDocs(n - 1, values) : Len(p) = n - 1},
                  w \in values \cup {<<>>}, v \in values \cup {<<>>}}

\* the greatest number of tasks of these documents
MaxFieldTasks == 3

WhereDocs == FieldDocs(MaxFieldTasks, {<<"1">>})

\* SELECT * FROM f WHERE w = 1 AND v = 1
Q_SelAnd ==
    << "S", "E", "L", "E", "C", "T", " ", "*", " ", "F", "R", "O", "M",
       " ", "f", " ", "W", "H", "E", "R", "E", " ", "w", " ", "=", " ",
       "1", " ", "A", "N", "D", " ", "v", " ", "=", " ", "1" >>

\* SELECT * FROM f WHERE w = 1 OR v = 1
Q_SelOr ==
    << "S", "E", "L", "E", "C", "T", " ", "*", " ", "F", "R", "O", "M",
       " ", "f", " ", "W", "H", "E", "R", "E", " ", "w", " ", "=", " ",
       "1", " ", "O", "R", " ", "v", " ", "=", " ", "1" >>

\* UPDATE f SET z = 9 WHERE w = 1 AND v = 1
Q_UpdAnd ==
    << "U", "P", "D", "A", "T", "E", " ", "f", " ", "S", "E", "T", " ",
       "z", " ", "=", " ", "9", " ", "W", "H", "E", "R", "E", " ", "w",
       " ", "=", " ", "1", " ", "A", "N", "D", " ", "v", " ", "=", " ",
       "1" >>

\* UPDATE f SET z = 9 WHERE w = 1 OR v = 1
Q_UpdOr ==
    << "U", "P", "D", "A", "T", "E", " ", "f", " ", "S", "E", "T", " ",
       "z", " ", "=", " ", "9", " ", "W", "H", "E", "R", "E", " ", "w",
       " ", "=", " ", "1", " ", "O", "R", " ", "v", " ", "=", " ", "1" >>

\* DELETE FROM f WHERE w = 1 AND v = 1
Q_DelAnd ==
    << "D", "E", "L", "E", "T", "E", " ", "F", "R", "O", "M", " ", "f",
       " ", "W", "H", "E", "R", "E", " ", "w", " ", "=", " ", "1", " ",
       "A", "N", "D", " ", "v", " ", "=", " ", "1" >>

\* DELETE FROM f WHERE w = 1 OR v = 1
Q_DelOr ==
    << "D", "E", "L", "E", "T", "E", " ", "F", "R", "O", "M", " ", "f",
       " ", "W", "H", "E", "R", "E", " ", "w", " ", "=", " ", "1", " ",
       "O", "R", " ", "v", " ", "=", " ", "1" >>

\* SELECT * FROM f WHERE w != 1
Q_SelOp ==
    << "S", "E", "L", "E", "C", "T", " ", "*", " ", "F", "R", "O", "M",
       " ", "f", " ", "W", "H", "E", "R", "E", " ", "w", " ", "!", "=",
       " ", "1" >>

\* UPDATE f SET z = 9 WHERE w != 1
Q_UpdOp ==
    << "U", "P", "D", "A", "T", "E", " ", "f", " ", "S", "E", "T", " ",
       "z", " ", "=", " ", "9", " ", "W", "H", "E", "R", "E", " ", "w",
       " ", "!", "=", " ", "1" >>

\* UPDATE f SET z = 9 WHERE w
Q_UpdShort ==
    << "U", "P", "D", "A", "T", "E", " ", "f", " ", "S", "E", "T", " ",
       "z", " ", "=", " ", "9", " ", "W", "H", "E", "R", "E", " ", "w" >>

\* DELETE FROM f WHERE w != 1
Q_DelOp ==
    << "D", "E", "L", "E", "T", "E", " ", "F", "R", "O", "M", " ", "f",
       " ", "W", "H", "E", "R", "E", " ", "w", " ", "!", "=", " ", "1" >>

\* DELETE FROM f WHERE w
Q_DelShort ==
    << "D", "E", "L", "E", "T", "E", " ", "F", "R", "O", "M", " ", "f",
       " ", "W", "H", "E", "R", "E", " ", "w" >>

WhereQueries == {Q_SelAnd, Q_SelOr, Q_UpdAnd, Q_UpdOr, Q_DelAnd, Q_DelOr, Q_SelOp, Q_UpdOp, Q_UpdShort, Q_DelOp, Q_DelShort}

\* the state before a command: the file f holds doc
StartWith(doc) ==
    /\ fs = [file \in Files |-> IF file = F_f THEN ReadAs(doc) ELSE NoFile]
    /\ last = [query |-> <<>>, args |-> <<>>, before |-> [file \in Files |-> NoFile],
               outcome |-> "start", reason |-> "", rows |-> <<>>, write |-> NoWrite]
    /\ steps = 0

WhereInit == \E doc \in WhereDocs : StartWith(doc)

Where == \E query \in WhereQueries : Run(query, RunQuery(fs, query))

WhereSpec == WhereInit /\ [][Where]_vars

-----------------------------------------------------------------------------
(* The query command with ORDER BY, on tasks with the fields w and v       *)

\* w and v of each task absent, the numbers 2 or 10, or the string 1a
SortDocs == FieldDocs(MaxFieldTasks, {<<"2">>, <<"1", "0">>, <<"1", "a">>})

\* SELECT * FROM f ORDER BY w
Q_OrdW ==
    << "S", "E", "L", "E", "C", "T", " ", "*", " ", "F", "R", "O", "M",
       " ", "f", " ", "O", "R", "D", "E", "R", " ", "B", "Y", " ", "w" >>

\* SELECT * FROM f ORDER BY w DESC
Q_OrdWD ==
    << "S", "E", "L", "E", "C", "T", " ", "*", " ", "F", "R", "O", "M",
       " ", "f", " ", "O", "R", "D", "E", "R", " ", "B", "Y", " ", "w",
       " ", "D", "E", "S", "C" >>

\* SELECT * FROM f ORDER BY w, v
Q_OrdWV ==
    << "S", "E", "L", "E", "C", "T", " ", "*", " ", "F", "R", "O", "M",
       " ", "f", " ", "O", "R", "D", "E", "R", " ", "B", "Y", " ", "w",
       ",", " ", "v" >>

\* SELECT * FROM f ORDER BY w DESC, v
Q_OrdWDV ==
    << "S", "E", "L", "E", "C", "T", " ", "*", " ", "F", "R", "O", "M",
       " ", "f", " ", "O", "R", "D", "E", "R", " ", "B", "Y", " ", "w",
       " ", "D", "E", "S", "C", ",", " ", "v" >>

\* SELECT * FROM f ORDER BY w, v DESC
Q_OrdWVD ==
    << "S", "E", "L", "E", "C", "T", " ", "*", " ", "F", "R", "O", "M",
       " ", "f", " ", "O", "R", "D", "E", "R", " ", "B", "Y", " ", "w",
       ",", " ", "v", " ", "D", "E", "S", "C" >>

SortQueries == {Q_OrdW, Q_OrdWD, Q_OrdWV, Q_OrdWDV, Q_OrdWVD}

SortInit == \E doc \in SortDocs : StartWith(doc)

Sort == \E query \in SortQueries : Run(query, RunQuery(fs, query))

SortSpec == SortInit /\ [][Sort]_vars

-----------------------------------------------------------------------------
(* The SELECT command on nested tasks                                       *)

\* the greatest number of tasks of a nested document
MaxTreeTasks == 4

\* the nesting levels of the tasks of a document: the first task at level 0,
\* each later one at most one level deeper than the one before it
RECURSIVE Shapes(_)
Shapes(n) ==
    IF n = 0 THEN {<<>>}
    ELSE Shapes(n - 1) \cup
         UNION {{Append(s, l) : l \in 0..(IF s = <<>> THEN 0 ELSE s[Len(s)] + 1)} :
                   s \in {p \in Shapes(n - 1) : Len(p) = n - 1}}

\* the documents of a shape: every task with an id of its own, or none with an id
TreeDoc(shape, withIds) ==
    [k \in 1..Len(shape) |->
        Spaces(IndentSize * shape[k])
            \o TaskLine(<<"T">>, <<>>, <<>>, IF withIds THEN TaskIds[k] ELSE <<>>)]
TreeDocs == {TreeDoc(shape, withIds) : shape \in Shapes(MaxTreeTasks), withIds \in BOOLEAN}

TreeQueries == {Q_Sel, Q_SelW, Q_SelInto, Q_SelLim}

\* the nesting levels with jumps: each later task at most two levels deeper than
\* the one before it (a jump of two levels is a lint warning, not an error)
RECURSIVE JumpShapes(_)
JumpShapes(n) ==
    IF n = 0 THEN {<<>>}
    ELSE JumpShapes(n - 1) \cup
         UNION {{Append(s, l) : l \in 0..(IF s = <<>> THEN 0 ELSE s[Len(s)] + 2)} :
                   s \in {p \in JumpShapes(n - 1) : Len(p) = n - 1}}
JumpDocs == {TreeDoc(shape, TRUE) : shape \in JumpShapes(MaxTreeTasks)}

\* the lines of the documents with multi-line blocks
L_task == <<"-", " ", "\"", "T", "\"">>
L_next == <<"-", " ", "\"", "U", "\"">>
L_keyN == <<" ", " ", "n", ":", " ", "|">>
L_keyM == <<" ", " ", "m", ":", " ", "|">>
L_text == <<" ", " ", " ", " ", "t", "e", "x", "t">>
L_item == <<" ", " ", " ", " ", "-", " ", "i", "t", "e", "m">>

\* A task with a multi-line block: the content lines of the block, and what
\* follows the block
L_first == <<"-", " ", "\"", "T", "\"", " ", "i", "d", ":", " ", "a">>
L_dash == <<" ", " ", " ", " ", "-", " ", "\"", "x">>
L_deep == <<" ", " ", " ", " ", " ", " ", "d", "e", "e", "p">>
PipeContents ==
    {<<L_text>>, <<L_item>>, <<L_dash>>, <<L_text, L_deep>>, <<L_text, <<>>, L_text>>}
PipeTails == {<<>>, <<L_next>>, << <<>> >>, << <<>>, L_next >>}
PipeDoc(content, tail) == <<L_first, L_keyN>> \o content \o tail
PipeDocs == {PipeDoc(content, tail) : content \in PipeContents, tail \in PipeTails}

TreeInit == \E doc \in TreeDocs \cup JumpDocs \cup PipeDocs : StartWith(doc)

SelectTree == \E query \in TreeQueries : Run(query, RunQuery(fs, query))

TreeSpec == TreeInit /\ [][SelectTree]_vars

-----------------------------------------------------------------------------
(* The lint command: cli.js 482-494                                        *)

\* one issue as the command prints it, errors before warnings
Printed(level, issues) ==
    [k \in 1..Len(issues) |->
        [level |-> level, line |-> issues[k].line, code |-> issues[k].code,
         startChar |-> issues[k].startChar]]

\* the report of the issues r = [errors, warnings]; the exit code is 1 when
\* there is an error
LintReport(fsys, r) ==
    Result(fsys, IF r.errors # <<>> THEN "error" ELSE "ok",
           IF r.errors # <<>> THEN "lint" ELSE "",
           Printed("ERROR", r.errors) \o Printed("WARN", r.warnings), NoWrite)

RunLint(fsys, file) ==
    IF ~Exists(fsys, file) THEN Fail(fsys, "nofile")
    ELSE LintReport(fsys, lintLines(fsys[file].lines))

\* A bullet line: the dash, a prefix run, a title and key: value pairs, each a
\* sequence of tokens
BulletText(prefix, title, pairs) == Join(<< <<"-">> >> \o prefix \o title \o pairs, <<" ">>)

PlainPrefixes == {<<>>, <<<<"A">>>>, <<<<"A">>, <<"@", "A", "l">>, <<"#", "p", "l">>>>}
CheckboxPrefixes ==
    {<<<<"[", "x", "]">>, <<"B">>, <<"@", "C">>, <<"#", "f">>>>,
     <<<<"[", "_", "]">>, <<"A">>>>,
     <<<<"[", "-", "]">>, <<"@", "C">>>>}
UnquotedTitles ==
    {<<<<"P", "r", "e", "p">>>>,
     <<<<"P", "r", "e", "p">>, <<"r", "o", "a", "d">>>>,
     <<<<"P", "r", "e", "p">>, <<"r", "o", "a", "d">>, <<"m", "a", "p">>>>}
QuotedTitles == {<<<<"\"", "Q", " ", "t", "\"">>>>}
PairRuns == {<<<<"d", "u", "e", ":">>, <<"1">>>>, <<<<"d", "u", "e", ":">>, <<"1">>, <<"w", ":">>, <<"2">>>>}

BulletDocs ==
    {<<BulletText(prefix, title, pairs)>> :
        prefix \in PlainPrefixes \cup CheckboxPrefixes,
        title \in UnquotedTitles \cup QuotedTitles \cup {<<>>},
        pairs \in PairRuns \cup {<<>>}}

\* A task with multi-line blocks: after each "key: |" line nothing, a deeper
\* line of text, a deeper line that starts with a dash, or a blank line and a
\* deeper line
BlockContents == {<<>>, <<L_text>>, <<L_item>>, <<L_text, L_item>>, << <<>>, L_text >>}
BlockDocs ==
    {<<L_task, L_keyN>> \o first \o second \o next :
        first \in BlockContents,
        second \in {<<>>} \cup {<<L_keyM>> \o content : content \in BlockContents},
        next \in {<<>>, <<L_next>>}}

\* A bullet line whose text is any run of quotes, backslashes and letters
MaxQuoteLen == 4
QuoteChars == {"\"", "'", BQ, "\\", "a"}
RECURSIVE QuoteTexts(_)
QuoteTexts(n) ==
    IF n = 0 THEN {<<>>}
    ELSE QuoteTexts(n - 1) \cup
         {Append(t, c) : t \in {p \in QuoteTexts(n - 1) : Len(p) = n - 1}, c \in QuoteChars}
\* the bullet line of the text, indent spaces deep, and the file that holds it:
\* an indented bullet stands under a task
QuoteLine(indent, text) == [i \in 1..indent |-> " "] \o <<"-", " ">> \o text
QuoteDoc(indent, text) ==
    IF indent = 0 THEN <<QuoteLine(0, text)>>
    ELSE << <<"-", " ", "\"", "T", "\"">>, QuoteLine(indent, text) >>
QuoteIndents == {0, IndentSize}
QuoteDocs == {QuoteDoc(indent, text) : indent \in QuoteIndents, text \in QuoteTexts(MaxQuoteLen) \ {<<>>}}

LintDocs == BulletDocs \cup BlockDocs \cup QuoteDocs

LintInit == \E doc \in LintDocs : StartWith(doc)

\* process.argv[3] given to the lint command: one run of the CLI
Lint == \E file \in Files : Run(file, RunLint(fs, file))

LintSpec == LintInit /\ [][Lint]_vars

-----------------------------------------------------------------------------
(* The commands that rewrite a file                                         *)

\* UPDATE f SET parent = 'x'
Q_UpdParent ==
    << "U", "P", "D", "A", "T", "E", " ", "f", " ", "S", "E", "T", " ",
       "p", "a", "r", "e", "n", "t", " ", "=", " ", "'", "x", "'" >>

\* UPDATE f SET w = 1 WHERE id = 'none'
Q_UpdNone ==
    << "U", "P", "D", "A", "T", "E", " ", "f", " ", "S", "E", "T", " ",
       "w", " ", "=", " ", "1", " ", "W", "H", "E", "R", "E", " ", "i",
       "d", " ", "=", " ", "'", "n", "o", "n", "e", "'" >>

\* DELETE FROM f WHERE id = 'none'
Q_DelNone ==
    << "D", "E", "L", "E", "T", "E", " ", "F", "R", "O", "M", " ", "f",
       " ", "W", "H", "E", "R", "E", " ", "i", "d", " ", "=", " ", "'",
       "n", "o", "n", "e", "'" >>

\* INSERT INTO f SET title = 'M'
Q_InsM ==
    << "I", "N", "S", "E", "R", "T", " ", "I", "N", "T", "O", " ", "f",
       " ", "S", "E", "T", " ", "t", "i", "t", "l", "e", " ", "=", " ",
       "'", "M", "'" >>

\* SELECT * FROM f INTO f
Q_IntoF ==
    << "S", "E", "L", "E", "C", "T", " ", "*", " ", "F", "R", "O", "M",
       " ", "f", " ", "I", "N", "T", "O", " ", "f" >>

\* INSERT INTO f SET title = '...', for a title
InsertTitled(title) == <<"I", "N", "S", "E", "R", "T", " ", "I", "N", "T", "O", " ", "f", " ", "S", "E", "T", " ", "t", "i", "t", "l", "e", " ", "=", " ", "'">> \o title \o <<"'">>
\* titles with a space, with a double quote, with a backtick, and with both
InsertTitles == {<<"a", " ", "b">>, <<"a", "\"", "b">>, <<"a", BQ, "b">>, <<"a", "\"", "b", BQ, "c">>}

\* UPDATE f SET completed = true
Q_UpdDone ==
    << "U", "P", "D", "A", "T", "E", " ", "f", " ", "S", "E", "T", " ",
       "c", "o", "m", "p", "l", "e", "t", "e", "d", " ", "=", " ", "t",
       "r", "u", "e" >>

RewriteQueries ==
    {Q_UpdParent, Q_UpdNone, Q_UpdDone, Q_DelNone, Q_InsM, Q_IntoF}
        \cup {InsertTitled(title) : title \in InsertTitles}

\* a bullet line that ends with an unquoted run of words
UnquotedDocs ==
    {<<BulletText(prefix, title, <<>>)>> : prefix \in PlainPrefixes, title \in UnquotedTitles}

\* a task with tags and a stakeholder, alone and with a block of two lines
L_tagged == <<"-", " ", "@", "A", "l", " ", "#", "p", " ", "#", "q", " ", "\"", "T", "\"", " ", "i", "d", ":", " ", "a">>
TaggedDocs == {<<L_tagged>>, <<L_tagged, L_keyN, L_text, L_text>>}

\* a task with a priority, with a stakeholder, with a tag, and a plain one
PrefixedDocs ==
    {<<<<"-", " ", "A", " ", "\"", "T", "\"", " ", "i", "d", ":", " ", "a">>>>, <<<<"-", " ", "@", "A", "l", " ", "\"", "T", "\"", " ", "i", "d", ":", " ", "a">>>>,
     <<<<"-", " ", "#", "p", " ", "\"", "T", "\"", " ", "i", "d", ":", " ", "a">>>>, <<L_first>>}

\* files with a task section: last in the file or followed by another section,
\* with a multi-line block, with a level-1 heading between the heading and the
\* bullets, and with a bullet before the task section
L_second == <<"-", " ", "\"", "U", "\"", " ", "i", "d", ":", " ", "b">>
L_notes == <<"#", "#", " ", "N", "o", "t", "e", "s">>
L_sub == <<"#", " ", "S", "u", "b">>
HeadedDocs ==
    {<<S_todo, L_first>>,
     <<S_todo, L_first, <<>>, L_notes>>,
     <<S_todo, L_first, L_keyN, L_text, L_text>>,
     <<S_todo, L_first, L_keyN, L_text, L_text, <<>>, L_notes>>,
     <<S_todo, L_sub, L_first>>,
     <<L_second, <<>>, S_todo, L_first>>}

RewriteDocs ==
    TreeDocs \cup UnquotedDocs \cup TaggedDocs \cup PrefixedDocs \cup HeadedDocs

RewriteInit == \E doc \in RewriteDocs : StartWith(doc)

Rewrite == \E query \in RewriteQueries : Run(query, RunQuery(fs, query))

RewriteSpec == RewriteInit /\ [][Rewrite]_vars

-----------------------------------------------------------------------------
(* Vocabulary of the properties                                            *)

\* a file passes the linter
Clean(lines) == lintLines(lines).errors = <<>>

\* the tasks of a text, in document order, as collectTasks lists them
FlatOf(lines) ==
    LET t == ParseTree(lines)
        c == collectTasks(t.heap, t.roots)
    IN  [k \in 1..Len(c.out) |-> c.h[c.out[k]]]

\* the fields of a task, whatever the order of their keys
FieldsOf(node) == Range(node.data)
FieldsBut(node, key) == {p \in Range(node.data) : p[1] # key}

\* a tree without its transient fields (parent, indent, inline)
RECURSIVE TreeView(_, _)
TreeView(h, nodes) ==
    [k \in 1..Len(nodes) |->
        [id |-> h[nodes[k]].id, fields |-> FieldsOf(h[nodes[k]]),
         children |-> TreeView(h, h[nodes[k]].children)]]

\* the lines that start a task
TaskStarts(lines) == {i \in 1..Len(lines) : StartsWith(Trim(lines[i]), <<"-">>)}

\* the text v of the first "id: v" of a line, <<>> when it has none
IdTextOf(line) ==
    LET at == {i \in 1..(Len(line) - 4) :
                  /\ SubSeq(line, i, i + 3) = <<"i", "d", ":", " ">>
                  /\ (i = 1 \/ IsWs(line[i - 1]))}
        a == MinOf(at) + 4
        ws == {j \in a..Len(line) : IsWs(line[j])}
    IN  IF at = {} THEN <<>>
        ELSE SubSeq(line, a, IF ws = {} THEN Len(line) ELSE MinOf(ws) - 1)

\* the explicit id the text gives to its k-th task, on the bullet line or on a
\* continuation line; <<>> when it gives none
ExplicitId(lines, k) ==
    LET starts == TaskStarts(lines)
        s == CHOOSE i \in starts : Cardinality({j \in starts : j <= i}) = k
        later == {i \in starts : i > s}
        e == IF later = {} THEN Len(lines) ELSE MinOf(later) - 1
        given == {j \in s..e : IdTextOf(lines[j]) # <<>>}
    IN  IF given = {} THEN <<>> ELSE IdTextOf(lines[MinOf(given)])

\* the query of the last command, and the file it names
LastQuery == parseQuery(last.query)
Ran(command) == last.outcome # "start" /\ ~LastQuery.err /\ LastQuery.command = command

-----------------------------------------------------------------------------
(* Properties                                                              *)

\* C1: for any lint-clean text, parsing it, serializing the tree and parsing the
\* output again gives a tree equal to the first one: the same nodes, nesting,
\* order, field names, values and value types (parent and indent set aside).
\* Stated of every lint-clean file of the file system.
C1_RoundTrip ==
    \A file \in Files :
        (fs[file].exists /\ Clean(fs[file].lines)) =>
            LET p == ParseTree(fs[file].lines)
                again == ParseTree(serializeTasksToLines(p.heap, p.roots))
            IN  /\ ~SerializeThrows(p.heap, p.roots)
                /\ TreeView(again.heap, again.roots) = TreeView(p.heap, p.roots)

\* C2: when the existing file a query names has a lint error, the command ends
\* in the error outcome and no file is written; when it has warnings only, the
\* linter does not stop the command.
C2_LintGate ==
    LET file == LastQuery.file.v
        lint == lintLines(last.before[file].lines)
    IN  (/\ last.outcome # "start" /\ ~LastQuery.err /\ Truthy(LastQuery.file)
         /\ Exists(last.before, file))
        => /\ lint.errors # <<>> => (last.outcome = "error" /\ fs = last.before)
           /\ (lint.errors = <<>> /\ lint.warnings # <<>>) => last.reason # "lint"

\* an INSERT was refused because the file it names has a lint error
C2_Witness ==
    /\ Ran(W_INSERT)
    /\ Exists(last.before, LastQuery.file.v)
    /\ ~Clean(last.before[LastQuery.file.v].lines)
    /\ last.outcome = "error"

\* C3: when the text has a task-section heading, replaceTodoSection returns the
\* lines up to and including the heading unchanged, then taskLines, then one
\* blank line, then the lines from the next level-1 or level-2 heading to the
\* end unchanged and in order.  Stated of the arguments the last command gave it.
C3_SectionFrame ==
    LET lines == last.write.targetLines
        taskLines == last.write.taskLines
        out == replaceTodoSection(lines, taskLines)
        heads == {i \in 1..Len(lines) : toUpperCase(Trim(lines[i])) = S_todo}
        h == MinOf(heads)
        nexts == {i \in (h + 1)..Len(lines) :
                     LET t == Trim(lines[i])
                     IN  \/ (Len(t) >= 2 /\ t[1] = "#" /\ IsWs(t[2]))
                         \/ (Len(t) >= 3 /\ t[1] = "#" /\ t[2] = "#" /\ IsWs(t[3]))}
        e == IF nexts = {} THEN Len(lines) + 1 ELSE MinOf(nexts)
        n == Len(taskLines)
    IN  (last.write.done /\ heads # {}) =>
            /\ Len(out) = h + n + 1 + (Len(lines) - e + 1)
            /\ \A i \in 1..h : out[i] = lines[i]
            /\ \A j \in 1..n : out[h + j] = taskLines[j]
            /\ out[h + n + 1] = <<>>
            /\ \A k \in e..Len(lines) : out[h + n + 2 + (k - e)] = lines[k]

\* a command rewrote the task section of a file that has a section after it
C3_Witness ==
    /\ last.write.done
    /\ last.write.taskLines # <<>>
    /\ \E i \in 1..Len(last.write.targetLines) :
          /\ toUpperCase(Trim(last.write.targetLines[i])) = S_todo
          /\ \E k \in (i + 2)..Len(last.write.targetLines) :
                last.write.targetLines[k] = DocFoot[2]
    /\ fs[last.write.file].lines = replaceTodoSection(last.write.targetLines, last.write.taskLines)

\* C4: a task whose text carries an explicit non-empty id, on the bullet line or
\* on a continuation line, gets a node id equal to that text exactly as written
\* (digits and leading zeros included); the id is never recomputed.
\* Stated of every lint-clean file of the file system.
C4_ExplicitIdVerbatim ==
    \A file \in Files :
        (fs[file].exists /\ Clean(fs[file].lines)) =>
            LET lines == fs[file].lines
                flat == FlatOf(lines)
            IN  \A k \in 1..Len(flat) :
                    ExplicitId(lines, k) # <<>> => flat[k].id = Str(ExplicitId(lines, k))

\* C5: in every document reached by parsing a lint-clean file and running
\* INSERT, UPDATE and DELETE commands, every task has a non-empty id and no two
\* tasks have the same id.
C5_UniqueIds ==
    \A file \in Files :
        (fs[file].exists /\ Clean(fs[file].lines)) =>
            LET flat == FlatOf(fs[file].lines)
            IN  /\ \A k \in 1..Len(flat) : flat[k].id \notin {Undef, Null, Str(<<>>)}
                /\ \A j, k \in 1..Len(flat) : j # k => flat[j].id # flat[k].id

\* C6: lintLines reports a Duplicate id error whenever the same explicit id is
\* given to two tasks of a document, inline or on a continuation line, wherever
\* the two tasks are.
C6_DuplicateIdReported ==
    \A file \in Files :
        LET lines == fs[file].lines
            n == Cardinality(TaskStarts(lines))
        IN  (/\ fs[file].exists
             /\ \E j, k \in 1..n :
                   j # k /\ ExplicitId(lines, j) # <<>> /\ ExplicitId(lines, j) = ExplicitId(lines, k))
            => \E i \in 1..Len(lintLines(lines).errors) :
                   lintLines(lines).errors[i].code = DUPLICATE_ID

\* C7: after UPDATE f SET priority = 'A' WHERE id = X on a lint-clean file that
\* has a task with id X, the re-parsed file has that task with priority "A" and
\* its other fields as before, and every task that does not match with its
\* fields as before.
C7_UpdatePriority ==
    LET file == LastQuery.file.v
        old == FlatOf(last.before[file].lines)
        new == FlatOf(fs[file].lines)
        Matches(node) == evaluateWhere(TaskOfNode(node), LastQuery.where).value
    IN  (/\ Ran(W_UPDATE)
         /\ LastQuery.set = << [key |-> K_priority, value |-> Str(<<"A">>)] >>
         /\ Len(LastQuery.where) = 3 /\ LastQuery.where[1] = K_id /\ LastQuery.where[2] = <<"=">>
         /\ Exists(last.before, file) /\ Clean(last.before[file].lines)
         /\ \E k \in 1..Len(old) : Matches(old[k]))
        => /\ last.outcome = "ok"
           /\ \A k \in 1..Len(old) :
                 IF Matches(old[k])
                 THEN \E j \in 1..Len(new) :
                         /\ new[j].id = old[k].id
                         /\ Get(new[j].data, K_priority) = Str(<<"A">>)
                         /\ FieldsBut(new[j], K_priority) = FieldsBut(old[k], K_priority)
                 ELSE \E j \in 1..Len(new) :
                         new[j].id = old[k].id /\ FieldsOf(new[j]) = FieldsOf(old[k])

\* a name with a character outside letters, digits, '-' and '_'
HasBadChar(item) == \E i \in 1..Len(item) : ~IsNameChar(item[i])

\* the query assigns tags or stakeholders an item, cut at the commas and taken
\* as it stands, that has such a character
AssignsBadRawItem(q) ==
    \E k \in 1..Len(q.set) :
        /\ q.set[k].key \in {K_tags, K_stakeholders}
        /\ q.set[k].value.t = "str"
        /\ \E item \in Range(SplitOn(processEscapeSequences(q.set[k].value.v), ",")) : HasBadChar(item)

\* ... an item that, with the white space around it trimmed, has such a character
AssignsBadItem(q) ==
    \E k \in 1..Len(q.set) :
        /\ q.set[k].key \in {K_tags, K_stakeholders}
        /\ q.set[k].value.t = "str"
        /\ \E item \in Range(SplitOn(processEscapeSequences(q.set[k].value.v), ",")) :
              HasBadChar(Trim(item))

\* C8 (as amended): when an UPDATE or INSERT assigns tags or stakeholders and an
\* item, with the white space around it trimmed, has a character outside
\* letters, digits, '-' and '_', the command ends in the error outcome and no
\* file changes.
C8_InvalidNameNoWrite ==
    ((Ran(W_UPDATE) \/ Ran(W_INSERT)) /\ AssignsBadItem(LastQuery))
        => (last.outcome = "error" /\ fs = last.before)

\* C8 (as written): the same of every comma-separated item taken as it stands,
\* the white space around it included.
C8_RawItemNoWrite ==
    ((Ran(W_UPDATE) \/ Ran(W_INSERT)) /\ AssignsBadRawItem(LastQuery))
        => (last.outcome = "error" /\ fs = last.before)

\* an UPDATE of a lint-clean file was refused for an invalid name
C8_Witness ==
    /\ Ran(W_UPDATE)
    /\ AssignsBadItem(LastQuery)
    /\ Exists(last.before, LastQuery.file.v)
    /\ Clean(last.before[LastQuery.file.v].lines)
    /\ FlatOf(last.before[LastQuery.file.v].lines) # <<>>
    /\ last.reason = "invalid"

\* the tasks DELETE is to keep, in document order: those that do not satisfy the
\* predicate and have no ancestor that does
RECURSIVE KeptTasks(_, _, _)
KeptTasks(h, nodes, where) ==
    IF nodes = <<>> THEN <<>>
    ELSE (IF evaluateWhere(TaskOfNode(h[Head(nodes)]), where).value THEN <<>>
          ELSE <<Head(nodes)>> \o KeptTasks(h, h[Head(nodes)].children, where))
         \o KeptTasks(h, Tail(nodes), where)

\* C9: DELETE removes every task that satisfies the WHERE predicate and no task
\* that neither satisfies it nor descends from one that does; the tasks that
\* remain keep their parent and their order.  Stated of the task lines DELETE
\* writes.
C9_DeleteExactly ==
    LET t == ParseTree(last.before[LastQuery.file.v].lines)
        kept == KeptTasks(t.heap, t.roots, LastQuery.where)
        left == FlatOf(last.write.taskLines)
    IN  (Ran(W_DELETE) /\ last.write.done) =>
            /\ Len(left) = Len(kept)
            /\ \A k \in 1..Len(kept) :
                  /\ k <= Len(left)
                  /\ left[k].id = t.heap[kept[k]].id
                  /\ left[k].parent = t.heap[kept[k]].parent

\* C10: SELECT ... FROM f WHERE c [LIMIT n] INTO out writes only the tasks of the
\* query result: every task written satisfies c, and no more than n are written.
C10_IntoWritesResult ==
    LET written == FlatOf(last.write.taskLines)
    IN  (Ran(W_SELECT) /\ Truthy(LastQuery.into) /\ last.write.done) =>
            /\ LastQuery.hasWhere =>
                  \A k \in 1..Len(written) : evaluateWhere(TaskOfNode(written[k]), LastQuery.where).value
            /\ LastQuery.hasLimit => ~DecLess(LastQuery.limit, DecOfInt(Len(written)))

W_AND == <<"A", "N", "D">>
W_OR == <<"O", "R">>

\* the WHERE clause is two conditions of three tokens joined by AND or OR
Compound(q) == Len(q.where) = 7 /\ toUpperCase(q.where[4]) \in {W_AND, W_OR}

\* the task satisfies the compound clause: both conditions, or at least one
Satisfies(node, q) ==
    IF toUpperCase(q.where[4]) = W_AND
    THEN /\ evaluateWhere(TaskOfNode(node), SubSeq(q.where, 1, 3)).value
         /\ evaluateWhere(TaskOfNode(node), SubSeq(q.where, 5, 7)).value
    ELSE \/ evaluateWhere(TaskOfNode(node), SubSeq(q.where, 1, 3)).value
         \/ evaluateWhere(TaskOfNode(node), SubSeq(q.where, 5, 7)).value

\* the ids of a sequence of tasks or rows
IdsOf(flat) == {flat[k].id : k \in 1..Len(flat)}
RowIds(rows) == {Get(rows[k], K_id) : k \in 1..Len(rows)}

\* C11: with a WHERE clause c1 AND c2 (c1 OR c2), SELECT prints exactly the tasks
\* that satisfy both conditions (at least one), UPDATE changes exactly those
\* tasks, and DELETE removes exactly those tasks.  Stated of the rows SELECT
\* prints and of the task lines UPDATE and DELETE write.
C11_CompoundWhere ==
    LET file == LastQuery.file.v
        old == FlatOf(last.before[file].lines)
        new == FlatOf(last.write.taskLines)
        sat == {k \in 1..Len(old) : Satisfies(old[k], LastQuery)}
    IN  (/\ last.outcome # "start" /\ ~LastQuery.err /\ Compound(LastQuery)
         /\ Exists(last.before, file) /\ Clean(last.before[file].lines))
        => /\ last.outcome = "ok"
           /\ Ran(W_SELECT) => RowIds(last.rows) = {old[k].id : k \in sat}
           /\ Ran(W_UPDATE) =>
                 /\ last.write.done
                 /\ \A k \in 1..Len(old) :
                       \E j \in 1..Len(new) :
                           /\ new[j].id = old[k].id
                           /\ IF k \in sat
                              THEN /\ Get(new[j].data, <<"z">>) = Num(9)
                                   /\ FieldsBut(new[j], <<"z">>) = FieldsBut(old[k], <<"z">>)
                              ELSE FieldsOf(new[j]) = FieldsOf(old[k])
           /\ Ran(W_DELETE) => last.write.done /\ IdsOf(new) = {old[k].id : k \in (1..Len(old)) \ sat}

\* the operator of the clause is one of =, >, <, CONTAINS, IS NULL, IS NOT NULL
KnownOperator(where) ==
    \/ where[2] \in {<<"=">>, <<">">>, <<"<">>}
    \/ toUpperCase(where[2]) = W_CONTAINS
    \/ /\ toUpperCase(where[2]) = W_IS
       /\ \/ toUpperCase(where[3]) = W_NULL
          \/ (Len(where) >= 4 /\ toUpperCase(where[3]) = W_NOT /\ toUpperCase(where[4]) = W_NULL)

\* the query has a WHERE clause of fewer than three tokens, or of an unknown operator
BadWhere(q) == q.hasWhere /\ (Len(q.where) < 3 \/ ~KnownOperator(q.where))

\* C12: a query whose WHERE clause has fewer than three tokens or an operator
\* other than =, >, <, CONTAINS, IS NULL, IS NOT NULL ends in the error outcome
\* and changes no file.
C12_BadWhereRejected ==
    (last.outcome # "start" /\ ~LastQuery.err /\ BadWhere(LastQuery))
        => (last.outcome = "error" /\ fs = last.before)

\* the rows are tied on the first m keys of the ORDER BY
\* va comes before vb in the ascending order of a key: numerically when both
\* are numbers, else as strings
KeyLess(va, vb) ==
    IF va.t = "num" /\ vb.t = "num" THEN DecLess(va.v, vb.v)
    ELSE StrLess(JsString(va), JsString(vb))
\* the two values tie: both are absent, or both are present and neither comes
\* before the other
KeyTied(va, vb) ==
    IF va = Undef \/ vb = Undef THEN va = vb
    ELSE ~KeyLess(va, vb) /\ ~KeyLess(vb, va)
Tied(ra, rb, orderBy, m) ==
    \A n \in 1..m : KeyTied(Get(ra, orderBy[n].key), Get(rb, orderBy[n].key))

\* a SELECT with ORDER BY printed the tasks of a lint-clean file
Sorted ==
    /\ Ran(W_SELECT) /\ LastQuery.hasOrderBy /\ last.outcome = "ok"
    /\ Exists(last.before, LastQuery.file.v)

\* C13: for every sort key and both directions, among the tasks tied on the keys
\* before it, every task that lacks the key's field comes before every task
\* that has it.  Stated of the rows SELECT ... ORDER BY prints.
C13_UndefinedFirst ==
    Sorted =>
        \A m \in 1..Len(LastQuery.orderBy) :
            \A i, j \in 1..Len(last.rows) :
                (/\ Tied(last.rows[i], last.rows[j], LastQuery.orderBy, m - 1)
                 /\ Get(last.rows[i], LastQuery.orderBy[m].key) = Undef
                 /\ Get(last.rows[j], LastQuery.orderBy[m].key) # Undef)
                => i < j

\* the position of the task of a row in the file
PositionOf(row, flat) == CHOOSE k \in 1..Len(flat) : flat[k].id = Get(row, K_id)

\* the two rows are in the order of the key: their values ascend, or descend
\* when the direction is desc
InKeyOrder(ra, rb, spec) ==
    IF spec.dir = <<"d", "e", "s", "c">>
    THEN KeyLess(Get(rb, spec.key), Get(ra, spec.key))
    ELSE KeyLess(Get(ra, spec.key), Get(rb, spec.key))

\* C14: two tasks that tie on the first k keys and both have the field of key
\* k+1, with values that do not tie, are ordered by key k+1 in its direction
\* (numerically when both values are numbers, else as strings); two tasks that
\* tie on every key keep their original relative order.  Stated of the rows
\* SELECT ... ORDER BY prints.
C14_LexicographicStable ==
    Sorted =>
        \A i, j \in 1..Len(last.rows) :
            i < j =>
                /\ \A m \in 1..Len(LastQuery.orderBy) :
                      (/\ Tied(last.rows[i], last.rows[j], LastQuery.orderBy, m - 1)
                       /\ Get(last.rows[i], LastQuery.orderBy[m].key) # Undef
                       /\ Get(last.rows[j], LastQuery.orderBy[m].key) # Undef
                       /\ ~KeyTied(Get(last.rows[i], LastQuery.orderBy[m].key),
                                   Get(last.rows[j], LastQuery.orderBy[m].key)))
                      => InKeyOrder(last.rows[i], last.rows[j], LastQuery.orderBy[m])
                /\ Tied(last.rows[i], last.rows[j], LastQuery.orderBy, Len(LastQuery.orderBy))
                      => PositionOf(last.rows[i], FlatOf(last.before[F_f].lines))
                             < PositionOf(last.rows[j], FlatOf(last.before[F_f].lines))



\* the tree SELECT ... INTO rebuilds from the flat list of the tasks of a text
Rebuilt(lines, t, c) == buildTreeForParent(c.h, c.out, mapNodes(c.h, t.roots), Str(S_root))
RebuiltOf(lines, t) == Rebuilt(lines, t, collectTasks(t.heap, t.roots))

\* a SELECT ... INTO without ORDER BY ran on a file that passes the linter
RanInto ==
    /\ Ran(W_SELECT) /\ Truthy(LastQuery.into) /\ ~LastQuery.hasOrderBy
    /\ Exists(last.before, LastQuery.file.v)
    /\ Clean(last.before[LastQuery.file.v].lines)

\* C15: the tree a SELECT ... INTO without ORDER BY rebuilds from the flat list
\* of the parsed tasks, grouping them by parent id, has the nodes of the parsed
\* tree, every node with the same children in the same order.
C15_RebuildIsomorphic ==
    RanInto =>
        LET t == ParseTree(last.before[LastQuery.file.v].lines)
            b == RebuiltOf(last.before[LastQuery.file.v].lines, t)
        IN  /\ b.ok
            /\ TreeView(b.h, b.arr) = TreeView(t.heap, t.roots)

\* the same, of the files whose tasks have different ids
C15_UniqueIdsOnly ==
    (RanInto /\ \A j, k \in 1..Len(FlatOf(last.before[LastQuery.file.v].lines)) :
                    j # k => FlatOf(last.before[LastQuery.file.v].lines)[j].id
                                 # FlatOf(last.before[LastQuery.file.v].lines)[k].id) =>
        LET t == ParseTree(last.before[LastQuery.file.v].lines)
            b == RebuiltOf(last.before[LastQuery.file.v].lines, t)
        IN  /\ b.ok
            /\ TreeView(b.h, b.arr) = TreeView(t.heap, t.roots)

\* the nodes of a forest
RECURSIVE Under(_, _)
Under(h, nodes) == Range(nodes) \cup UNION {Under(h, h[n].children) : n \in Range(nodes)}

\* the place of a node in a list of nodes
PlaceOf(out, n) == CHOOSE k \in 1..Len(out) : out[k] = n

\* in out, each node of the list siblings, with all the nodes under it, comes
\* before the next node of the list
SiblingsInOrder(h, out, siblings) ==
    \A i, j \in 1..Len(siblings) :
        i < j => \A d \in Under(h, <<siblings[i]>>) : PlaceOf(out, d) < PlaceOf(out, siblings[j])

\* a SELECT ran on a file that passes the linter
RanSelect ==
    /\ Ran(W_SELECT)
    /\ Exists(last.before, LastQuery.file.v)
    /\ Clean(last.before[LastQuery.file.v].lines)

\* what C16 says of the forest t and of c, the result of collectTasks on it
PreOrderWithParents(t, c, all) ==
    /\ Len(c.out) = Cardinality(all)
    /\ Range(c.out) = all
    /\ SiblingsInOrder(t.heap, c.out, t.roots)
    /\ \A m \in all :
          /\ SiblingsInOrder(t.heap, c.out, t.heap[m].children)
          /\ \A d \in Under(t.heap, t.heap[m].children) : PlaceOf(c.out, m) < PlaceOf(c.out, d)
          /\ \A n \in Range(t.heap[m].children) : c.h[n].parent = t.heap[m].id
          /\ c.h[m].children = t.heap[m].children
          /\ c.h[m].id = t.heap[m].id
    /\ \A n \in Range(t.roots) : c.h[n].parent = Null
PreOrderOf(t) == PreOrderWithParents(t, collectTasks(t.heap, t.roots), Under(t.heap, t.roots))

\* C16: collectTasks lists every node of the forest exactly once, a node before
\* the nodes under it and siblings in source order, the parent of a node being
\* the id of the node that encloses it, and null for a root.
C16_PreOrderParents ==
    RanSelect => PreOrderOf(ParseTree(last.before[LastQuery.file.v].lines))

\* a SELECT ran on a file of four tasks: a root with a child and a grandchild,
\* and a second root after them
C16_Witness ==
    /\ RanSelect
    /\ last.outcome = "ok"
    /\ LET t == ParseTree(last.before[LastQuery.file.v].lines)
       IN  /\ Len(t.roots) = 2
           /\ Len(t.heap[t.roots[1]].children) = 1
           /\ Len(t.heap[t.heap[t.roots[1]].children[1]].children) = 1

\* the lint command ran on the file f, the lines of the file being lines
Linted(lines) ==
    /\ last.outcome # "start"
    /\ last.query = F_f
    /\ last.before[F_f].exists
    /\ last.before[F_f].lines = lines

\* the errors the lint command printed
PrintedErrors == SelectSeq(last.rows, LAMBDA row : row.level = "ERROR")

\* C17: for a bullet line whose prefix run is followed by an unquoted run of one
\* or more words and then at least one key: value pair, lint reports exactly
\* one error, the strings-need-to-be-quoted error, however many the words.
C17_OneUnquotedTitleError ==
    \A prefix \in PlainPrefixes, title \in UnquotedTitles, pairs \in PairRuns :
        Linted(<<BulletText(prefix, title, pairs)>>) =>
            /\ Len(PrintedErrors) = 1
            /\ PrintedErrors[1].code = UNQUOTED_TITLE_WITH_KV

\* a line "key: |"
IsPipeKey(line) ==
    /\ KeyColonAt(Trim(line)) > 0
    /\ Trim(DropFirst(Trim(line), KeyColonAt(Trim(line)))) = <<"|">>

\* The indented "key: |" lines of a text that open a block, from line i on:
\* the lines indented deeper than the key line of an open block are its content,
\* blank lines are skipped, and any other line ends the block.
RECURSIVE BlockKeys(_, _, _, _)
BlockKeys(lines, i, inside, base) ==
    IF i > Len(lines) THEN {}
    ELSE IF Trim(lines[i]) = <<>> THEN BlockKeys(lines, i + 1, inside, base)
    ELSE IF inside /\ IndentOf(lines[i]) > base THEN BlockKeys(lines, i + 1, inside, base)
    ELSE IF IsPipeKey(lines[i]) /\ IndentOf(lines[i]) > 0
    THEN {i} \cup BlockKeys(lines, i + 1, TRUE, IndentOf(lines[i]))
    ELSE BlockKeys(lines, i + 1, FALSE, 0)

\* the lines after the key line i that are content of its block
ContentOf(lines, i) ==
    {j \in (i + 1)..Len(lines) :
        \A k \in (i + 1)..j : Trim(lines[k]) = <<>> \/ IndentOf(lines[k]) > IndentOf(lines[i])}
HasContent(lines, i) == \E j \in ContentOf(lines, i) : Trim(lines[j]) # <<>>

\* the errors printed for the lines of a set
ErrorsAt(at) == SelectSeq(PrintedErrors, LAMBDA row : row.line \in at)

\* C18: lint reports exactly one has-no-indented-content error for an indented
\* "key: |" line of a task that no deeper line follows (blank lines skipped),
\* and no error for a block that has deeper lines, wherever the key line stands
\* in the task, also after an earlier block.
C18_EmptyBlockReported ==
    \A doc \in BlockDocs :
        Linted(doc) =>
            \A i \in BlockKeys(doc, 1, FALSE, 0) :
                IF HasContent(doc, i)
                THEN ErrorsAt({i} \cup ContentOf(doc, i)) = <<>>
                ELSE /\ Len(ErrorsAt({i})) = 1
                     /\ ErrorsAt({i})[1].code = MULTILINE_NO_CONTENT

\* C19: a bullet line whose prefix run begins with a checkbox marker [x], [_]
\* or [-] followed by other prefix tokens and then a quoted title produces no
\* lint error.
C19_CheckboxPrefixClean ==
    \A prefix \in CheckboxPrefixes, title \in QuotedTitles, pairs \in PairRuns \cup {<<>>} :
        Linted(<<BulletText(prefix, title, pairs)>>) => PrintedErrors = <<>>

\* the state of the scan of validateQuotes after the first k characters of text
QuoteAt(text, k) == QuoteScan(SubSeq(text, 1, k), 1, 0, QuoteInit)

\* the modes open in a state of the scan, each named by the code of its error
OpenModes(q) ==
    (IF q.inDoubleQuote THEN {UNCLOSED_DOUBLE_QUOTE} ELSE {})
    \cup (IF q.inSingleQuote THEN {UNCLOSED_SINGLE_QUOTE} ELSE {})
    \cup (IF q.inBacktick THEN {UNCLOSED_BACKTICK_QUOTE} ELSE {})

\* the k-th character of text follows a backslash that is not itself escaped
RECURSIVE Escaped(_, _)
Escaped(text, k) == k > 1 /\ text[k - 1] = "\\" /\ ~Escaped(text, k - 1)

\* the character of text that opened the mode still open at the end
OpenedAt(text, mode) ==
    CHOOSE k \in 1..Len(text) :
        /\ mode \notin OpenModes(QuoteAt(text, k - 1))
        /\ \A j \in k..Len(text) : mode \in OpenModes(QuoteAt(text, j))

\* the unclosed-quote errors printed, as pairs of code and offset
PrintedUnclosed ==
    SelectSeq(PrintedErrors,
              LAMBDA row : row.code \in {UNCLOSED_DOUBLE_QUOTE, UNCLOSED_SINGLE_QUOTE,
                                         UNCLOSED_BACKTICK_QUOTE})

\* at most one mode is open after every prefix of the text
OneModeOpen(text) == \A k \in 0..Len(text) : Cardinality(OpenModes(QuoteAt(text, k))) <= 1

\* the k-th character of text leaves the open modes as they were
LeavesModes(text, k) == OpenModes(QuoteAt(text, k)) = OpenModes(QuoteAt(text, k - 1))

\* the unclosed-quote errors printed are one for each mode open at the end of
\* the text, each at lineOffset plus the index of the character that opened it
UnclosedReported(text, lineOffset) ==
    /\ Len(PrintedUnclosed) = Cardinality(OpenModes(QuoteAt(text, Len(text))))
    /\ {<<PrintedUnclosed[n].code, PrintedUnclosed[n].startChar>> : n \in 1..Len(PrintedUnclosed)}
          = {<<mode, lineOffset + OpenedAt(text, mode) - 1>> : mode \in OpenModes(QuoteAt(text, Len(text)))}

\* the lineOffset lintLines gives validateQuotes for the text of a bullet that
\* is indent spaces deep: the indent is counted twice (part_010 379-380)
ContentOffset(indent) == indent + indent + Len(<<"-", " ">>)

HasField(line, key) ==
    \E i \in 2..(Len(line) - Len(key)) :
        /\ IsWs(line[i - 1])
        /\ SubSeq(line, i, i + Len(key) - 1) = key
        /\ line[i + Len(key)] = ":"
AnyHasField(lines, key) == \E k \in 1..Len(lines) : HasField(lines[k], key)

\* the last command wrote a file
Wrote == last.outcome = "ok" /\ last.write.done

\* C21: after a write of SELECT ... INTO, UPDATE, DELETE or INSERT to a file
\* that had no parent: field, no line of the written file has a parent: field.
C21_ParentNeverWritten ==
    (Wrote /\ ~AnyHasField(last.before[F_f].lines, K_parent)) =>
        ~AnyHasField(fs[last.write.file].lines, K_parent)

\* text occurs in a line of lines
Occurs(text, lines) ==
    \E k \in 1..Len(lines) :
        \E i \in 1..(Len(lines[k]) - Len(text) + 1) :
            SubSeq(lines[k], i, i + Len(text) - 1) = text

\* C22: a lint-clean bullet line whose prefix run is followed only by an
\* unquoted run of words parses to a node whose title is that run of words, and
\* the words are in the task lines a command writes for the file.
C22_UnquotedTitleKept ==
    \A prefix \in PlainPrefixes, title \in UnquotedTitles :
        LET doc == <<BulletText(prefix, title, <<>>)>>
        IN  /\ (fs[F_f].exists /\ fs[F_f].lines = doc /\ Clean(doc)) =>
                  Get(FlatOf(doc)[1].data, K_title) = Str(Join(title, <<" ">>))
            /\ (Wrote /\ last.write.file = F_f /\ last.before[F_f].lines = doc) =>
                  Occurs(Join(title, <<" ">>), last.write.taskLines)

\* the second part alone: the words in the task lines written
C22_WordsWritten ==
    \A prefix \in PlainPrefixes, title \in UnquotedTitles :
        (Wrote /\ last.write.file = F_f
               /\ last.before[F_f].lines = <<BulletText(prefix, title, <<>>)>>) =>
            Occurs(Join(title, <<" ">>), last.write.taskLines)

\* the bullet lines of a text from line i on, in order: the lines that start
\* with a dash and are not content of a "key: |" block
RECURSIVE BulletsIn(_, _, _, _)
BulletsIn(lines, i, inside, base) ==
    IF i > Len(lines) THEN <<>>
    ELSE IF Trim(lines[i]) = <<>> THEN BulletsIn(lines, i + 1, inside, base)
    ELSE IF inside /\ IndentOf(lines[i]) > base THEN BulletsIn(lines, i + 1, inside, base)
    ELSE IF StartsWith(Trim(lines[i]), <<"-">>) THEN <<i>> \o BulletsIn(lines, i + 1, FALSE, 0)
    ELSE BulletsIn(lines, i + 1, IsPipeKey(lines[i]), IndentOf(lines[i]))
BulletsFrom(lines, i) == BulletsIn(lines, i, FALSE, 0)

\* the bullet that owns the k-th bullet: the nearest bullet before it whose
\* indentation is strictly smaller, 0 when there is none
OwnerOf(lines, bullets, k) ==
    LET before == {j \in 1..(k - 1) : IndentOf(lines[bullets[j]]) < IndentOf(lines[bullets[k]])}
    IN  IF before = {} THEN 0 ELSE MaxOf(before)

\* a list of nodes in increasing order, so without a node twice
Increasing(nodes) == \A i, j \in 1..Len(nodes) : i < j => nodes[i] < nodes[j]

\* what C23 says of the tree t parsed from lines, the k-th node of the heap
\* being the node of the k-th bullet
ForestOf(lines, bullets, t) ==
    /\ Len(t.heap) = Len(bullets)
    /\ Increasing(t.roots)
    /\ \A k \in 1..Len(t.heap) :
          /\ Increasing(t.heap[k].children)
          /\ t.heap[k].indent = IndentOf(lines[bullets[k]])
          /\ IF OwnerOf(lines, bullets, k) = 0
             THEN /\ k \in Range(t.roots)
                  /\ t.heap[k].parent = Null
                  /\ \A m \in 1..Len(t.heap) : k \notin Range(t.heap[m].children)
             ELSE /\ k \notin Range(t.roots)
                  /\ t.heap[k].parent = t.heap[OwnerOf(lines, bullets, k)].id
                  /\ \A m \in 1..Len(t.heap) :
                        k \in Range(t.heap[m].children) <=> m = OwnerOf(lines, bullets, k)

\* C23: the parser makes the node of every bullet line a child of the nearest
\* bullet before it whose indentation is strictly smaller, after that node's
\* earlier children, or a root when there is no such bullet: every node has one
\* owner, and the owner's line comes before the lines of its children.
C23_NearestShallowerOwner ==
    RanSelect =>
        ForestOf(last.before[LastQuery.file.v].lines,
                 BulletsFrom(last.before[LastQuery.file.v].lines, 1),
                 ParseTree(last.before[LastQuery.file.v].lines))

\* a SELECT ran on a file of four tasks at the levels 0, 2, 1 and 1: the second
\* and the third task are children of the first, the fourth a sibling of the third
C23_Witness ==
    /\ RanSelect
    /\ last.outcome = "ok"
    /\ last.before[F_f].lines = TreeDoc(<<0, 2, 1, 1>>, TRUE)
    /\ ParseTree(last.before[F_f].lines).heap[1].children = <<2, 3, 4>>

\* the value of a block: its lines without the indentation of the block, which
\* is that of the key line and one indent unit, joined by newlines
BlockValue(content, blockIndent) ==
    Join([k \in 1..Len(content) |-> DropFirst(content[k], blockIndent + IndentSize)], <<"\n">>)

\* SELECT * FROM f ran on the task with the block content, followed by tail
SelectedPipe(content, tail) ==
    /\ last.outcome # "start"
    /\ last.query = Q_Sel
    /\ last.before[F_f].exists
    /\ last.before[F_f].lines = PipeDoc(content, tail)

\* C24: the lines of a "key: |" block, also those that begin with a dash, are
\* neither linted as bullet lines nor parsed into task nodes, and the value of
\* the field is the lines of the block in order, joined by newlines, without
\* the indentation of the block: no line is added, not the blank lines that
\* follow the block either, and none is dropped.
C24_BlockValueExact ==
    \A content \in PipeContents, tail \in PipeTails :
        SelectedPipe(content, tail) =>
            /\ last.outcome = "ok"
            /\ Len(last.rows) = Len(SelectSeq(<<L_first>> \o tail, LAMBDA line : line # <<>>))
            /\ Get(last.rows[1], <<"n">>) = Str(BlockValue(content, IndentOf(L_keyN)))

\* the same, of the blocks that no blank line follows
C24_NoBlankAfter ==
    \A content \in PipeContents, tail \in {<<>>, <<L_next>>} :
        SelectedPipe(content, tail) =>
            /\ last.outcome = "ok"
            /\ Len(last.rows) = Len(<<L_first>> \o tail)
            /\ Get(last.rows[1], <<"n">>) = Str(BlockValue(content, IndentOf(L_keyN)))

\* the text after the dash of the last of the task lines written
LastWritten == Trim(Tail(Trim(last.write.taskLines[Len(last.write.taskLines)])))

\* C25: the serializer wraps a title in a quote character that does not occur in
\* the title: the bullet line it writes for a task reads back as one quoted
\* token whose content is the title, for every title string.
C25_TitleQuoteReadsBack ==
    \A title \in InsertTitles :
        (Wrote /\ last.query = InsertTitled(title)) =>
            /\ isQuotedString(tokenizeRespectingQuotes(LastWritten)[1])
            /\ stripQuotes(tokenizeRespectingQuotes(LastWritten)[1]) = title
            /\ Get(FlatOf(last.write.taskLines)[Len(FlatOf(last.write.taskLines))].data, K_title)
                  = Str(title)

\* the field of a task is an array with the items it had before the write
SameArray(before, after, key) ==
    Get(before.data, key).t = "arr" =>
        /\ Get(after.data, key).t = "arr"
        /\ Get(after.data, key).v = Get(before.data, key).v

\* the last command wrote the tasks of the file without changing one
RewroteUnchanged == Wrote /\ last.query \in {Q_UpdNone, Q_DelNone}

\* C26: in the tree parsed from the lines the serializer wrote, the tags and
\* stakeholders of every task are arrays with the items they had before the
\* write, also for a task written in multi-line form.
C26_TagsStayArrays ==
    RewroteUnchanged =>
        /\ Len(FlatOf(last.write.taskLines)) = Len(FlatOf(last.before[F_f].lines))
        /\ \A k \in 1..Len(FlatOf(last.write.taskLines)) :
               /\ SameArray(FlatOf(last.before[F_f].lines)[k],
                            FlatOf(last.write.taskLines)[k], K_tags)
               /\ SameArray(FlatOf(last.before[F_f].lines)[k],
                            FlatOf(last.write.taskLines)[k], K_stakeholders)

\* the tags of the tasks written in single-line form
C26_SingleLineArrays ==
    (RewroteUnchanged /\ \A k \in 1..Len(last.write.taskLines) :
                            Head(Trim(last.write.taskLines[k])) = "-") =>
        /\ Len(FlatOf(last.write.taskLines)) = Len(FlatOf(last.before[F_f].lines))
        /\ \A k \in 1..Len(FlatOf(last.write.taskLines)) :
               SameArray(FlatOf(last.before[F_f].lines)[k],
                         FlatOf(last.write.taskLines)[k], K_tags)

\* C27: a file written by a successful UPDATE, DELETE, INSERT or SELECT ... INTO
\* on a lint-clean input has no lint errors, also when a task has its completed
\* flag set together with a priority, a stakeholder or a tag.
C27_WrittenFileClean ==
    (Wrote /\ Clean(last.before[last.write.file].lines)) =>
        Clean(fs[last.write.file].lines)

\* the same for the writes that set no completed flag and write no title with
\* both quote characters
C27_CleanWithoutCheckbox ==
    (Wrote /\ Clean(last.before[last.write.file].lines)
           /\ last.query # Q_UpdDone
           /\ last.query # InsertTitled(<<"a", "\"", "b", BQ, "c">>)) =>
        Clean(fs[last.write.file].lines)

\* the file f after the query is run once more on the files as they are
Again(query) == RunQuery(fs, query).fs[F_f].lines

\* C28: once a file has been written by an UPDATE that matches no task, the
\* same UPDATE run again leaves the content of the file as it is, whether the
\* task section was appended or replaced, last in the file or not.
C28_RewriteFixedPoint ==
    (Wrote /\ last.query = Q_UpdNone) => Again(Q_UpdNone) = fs[F_f].lines

\* the same for the file whose task section is followed by another section,
\* holds every bullet of the file and has no multi-line block
C28_FixedWhenSectionInside ==
    (Wrote /\ last.query = Q_UpdNone
           /\ last.before[F_f].lines = <<S_todo, L_first, <<>>, L_notes>>) =>
        Again(Q_UpdNone) = fs[F_f].lines

\* the tasks of the file the last query read have different ids
DistinctIds ==
    \A j, k \in 1..Len(FlatOf(last.before[LastQuery.file.v].lines)) :
        j # k => FlatOf(last.before[LastQuery.file.v].lines)[j].id
                     # FlatOf(last.before[LastQuery.file.v].lines)[k].id

\* C29: SELECT ... INTO ends on every file that passes the linter: the rebuild
\* of the tree from the parent groups returns, and the command does not die in
\* it, also when two tasks of the file have the same id.
C29_IntoTerminates ==
    RanInto =>
        /\ RebuiltOf(last.before[LastQuery.file.v].lines,
                     ParseTree(last.before[LastQuery.file.v].lines)).ok
        /\ last.reason # "crash"

\* the same, of the files whose tasks have different ids
C29_TerminatesOnDistinctIds ==
    (RanInto /\ DistinctIds) =>
        /\ RebuiltOf(last.before[LastQuery.file.v].lines,
                     ParseTree(last.before[LastQuery.file.v].lines)).ok
        /\ last.outcome = "ok"

\* the last command was an UPDATE that wrote the file it read
Updated == Wrote /\ LastQuery.command = W_UPDATE /\ Clean(last.before[F_f].lines)

\* C30: after an UPDATE on a file that passes the linter, the written file
\* parses to as many tasks as the file had before, also when the file has
\* bullets outside the task section or a level-1 or level-2 heading between the
\* heading of the task section and its bullets.
C30_UpdateKeepsTaskCount ==
    Updated => Len(FlatOf(fs[F_f].lines)) = Len(FlatOf(last.before[F_f].lines))

\* the same for the files whose bullets all stand in the task section, before
\* any other heading
C30_CountKeptInsideSection ==
    (Updated /\ last.before[F_f].lines \in
                    {<<S_todo, L_first>>, <<S_todo, L_first, <<>>, L_notes>>,
                     <<S_todo, L_first, L_keyN, L_text, L_text>>,
                     <<S_todo, L_first, L_keyN, L_text, L_text, <<>>, L_notes>>}) =>
        Len(FlatOf(fs[F_f].lines)) = Len(FlatOf(last.before[F_f].lines))

=========================================================================
